---- MODULE Spec2Model ----
\* The Go rules engine of src/TMtests/tmcode/board.py: groups, board,
\* Zobrist hash, GameState history, legality, termination, result and the
\* Thue-Morse turn-order override.
EXTENDS Integers, Sequences, FiniteSets, TLC

\* ---------------------------------------------------------------- bounds
\* Longest game explored when every applied move was accepted by is_valid_move.
MaxMoves == 7
\* Longest sequence of apply_move calls explored when the caller checks nothing.
MaxAnyMoves == 4
\* Largest turn override limit (ThueMorse) a game is created with.
MaxTM == 4
\* Board dimensions (rows, cols) a game is created with.
BoardSizes == {<<1, 3>>, <<2, 2>>}

\* ---------------------------------------------------------------- Go types
black == "black"
white == "white"
\* Player.other
other(p) == IF p = white THEN black ELSE white

\* Python's None where a colour / occupant is expected.
NoColor == "None"
\* None where a GoString is expected (an empty grid cell).
NoString == [color |-> NoColor, stones |-> {}, liberties |-> {}]
\* None where a Point is expected (Move.point of a pass or resignation).
NoPoint == <<>>
\* None where a Move is expected (last_move of the root state).
NoMove == [is_play |-> FALSE, is_pass |-> FALSE, is_resign |-> FALSE, point |-> NoPoint]
\* None where a GameState is expected (previous_state of the root state).
NoState == [is_none |-> TRUE]
\* The value of an unset turn_count (None, or the attribute never assigned).
NoTurn == -1

\* Point.neighbors: up, down, left, right, on or off the board.
Point_neighbors(p) ==
  << <<p[1] - 1, p[2]>>, <<p[1] + 1, p[2]>>, <<p[1], p[2] - 1>>, <<p[1], p[2] + 1>> >>

\* All points of a rows x cols board.
Points(rows, cols) == (1..rows) \X (1..cols)

\* init_neighbor_table: per point, the neighbours clipped to the board.
init_neighbor_table(rows, cols) ==
  [p \in Points(rows, cols) |->
     SelectSeq(Point_neighbors(p),
               LAMBDA n : 1 <= n[1] /\ n[1] <= rows /\ 1 <= n[2] /\ n[2] <= cols)]

\* The four diagonal points of a point, on or off the board.
Point_corners(p) ==
  << <<p[1] - 1, p[2] - 1>>, <<p[1] - 1, p[2] + 1>>,
     <<p[1] + 1, p[2] - 1>>, <<p[1] + 1, p[2] + 1>> >>

\* init_corner_table: per point, the diagonal points clipped to the board.
init_corner_table(rows, cols) ==
  [p \in Points(rows, cols) |->
     SelectSeq(Point_corners(p),
               LAMBDA n : 1 <= n[1] /\ n[1] <= rows /\ 1 <= n[2] /\ n[2] <= cols)]

\* ---------------------------------------------------------------- Zobrist
\* 64-bit integers are sets of bit positions; ^ is the symmetric difference.
\* ^ mistaken for | (bits are only ever set).
XOR_as_or(a, b) == a \cup b

XOR(a, b) == (a \ b) \cup (b \ a)

\* EMPTY_BOARD = 3127802437738363466 (board.py:1583), as the set of positions of its 1 bits
EMPTY_BOARD == {1,3,6,9,11,12,13,14,15,17,18,19,20,21,22,23,26,27,30,31,33,34,35,36,37,39,40,41,42,43,45,51,53,54,56,57,59,61}

\* HASH_CODE[(point, occupant)] for the points of boards up to 3x3; each 64-bit
\* code is written as the set of positions of its 1 bits (decimal value alongside).
HASH_CODE ==
  (<<<<1,1>>, "None">> :> {0,2,4,6,7,9,11,12,15,17,18,20,23,27,28,30,32,35,36,38,41,46,48,53,60}) @@ \* 1162283130344086229
  (<<<<1,1>>, "black">> :> {4,5,8,9,10,12,13,14,17,18,19,20,24,29,30,32,34,36,37,39,40,41,44,45,46,48,52,54,55,57,58,59,60,61,62}) @@ \* 9138212341767108400
  (<<<<1,1>>, "white">> :> {3,4,7,12,13,15,16,19,22,24,25,26,28,29,30,31,32,33,36,38,40,41,42,43,45,47,54,57,58}) @@ \* 450552737902997656
  (<<<<1,2>>, "None">> :> {3,4,5,8,12,14,16,18,19,21,24,26,32,33,34,35,36,38,40,41,44,45,47,48,50,52,54,59,61,62}) @@ \* 7518112373655032120
  (<<<<1,2>>, "black">> :> {1,2,3,5,6,8,9,15,19,20,21,23,24,26,27,28,30,32,33,36,38,39,40,42,46,47,48,50,53,54,55,56,57,58,61}) @@ \* 2874921448747074414
  (<<<<1,2>>, "white">> :> {1,5,6,7,8,10,11,15,16,17,19,20,22,24,29,31,33,34,36,37,38,39,42,47,49,51,52,53,54,55}) @@ \* 70514938981617122
  (<<<<1,3>>, "None">> :> {0,2,4,6,7,10,13,14,15,19,20,21,22,24,26,27,28,32,35,37,38,39,40,43,45,46,47,48,50,51,53,54,57,58,59,60}) @@ \* 2192665781030413525
  (<<<<1,3>>, "black">> :> {1,2,3,5,6,9,11,13,14,15,20,21,22,26,27,29,30,33,38,41,42,46,50,53,54,57,58,60,62}) @@ \* 6225177836033993326
  (<<<<1,3>>, "white">> :> {1,2,4,5,6,10,11,15,20,22,24,28,29,30,34,35,37,41,44,45,46,47,51,52,53,55,58,60,62}) @@ \* 6104895567594294390
  (<<<<2,1>>, "None">> :> {0,2,4,6,7,9,11,12,13,15,17,18,21,24,26,27,29,30,31,33,36,38,42,43,44,46,47,48,49,50,53,54,55,56,58}) @@ \* 425550938533968597
  (<<<<2,1>>, "black">> :> {0,1,2,4,6,7,9,10,13,14,15,16,19,20,22,23,24,26,30,35,37,38,39,41,42,48,49,51,53,56,57,58,62}) @@ \* 5128200195365529303
  (<<<<2,1>>, "white">> :> {0,1,2,4,5,6,7,8,14,15,18,19,21,22,23,27,29,30,32,35,36,39,40,44,45,46,49,51,54,58,60,62}) @@ \* 6073791951166816759
  (<<<<2,2>>, "None">> :> {3,5,7,12,14,15,17,19,20,22,24,27,29,31,34,36,38,39,40,42,45,46,48,49,52,53,54,56,58,59,60,62}) @@ \* 6733837831897796776
  (<<<<2,2>>, "black">> :> {1,2,7,10,11,12,17,18,19,20,21,22,29,31,32,33,35,36,37,43,44,46,47,48,54,58,59,61,62}) @@ \* 7800753780189699206
  (<<<<2,2>>, "white">> :> {1,2,4,6,7,11,14,18,19,21,22,29,30,31,35,38,45,46,47,56,60,62}) @@ \* 5836911720679622870
  (<<<<2,3>>, "None">> :> {0,1,4,6,7,8,10,11,14,15,17,18,20,21,26,31,32,33,34,40,41,42,43,45,47,48,49,51,52,54,57,58,60,61}) @@ \* 3916916747746594259
  (<<<<2,3>>, "black">> :> {0,3,6,8,13,14,15,16,18,20,21,26,28,32,33,35,37,40,41,44,45,48,50,52,53,55}) @@ \* 51003230900314441
  (<<<<2,3>>, "white">> :> {0,4,5,7,10,13,14,15,16,17,18,19,22,23,24,25,28,29,30,33,34,35,37,38,39,41,42,43,44,45,46,48,50,51,52,54,58,59,60,62}) @@ \* 6655615386933781681
  (<<<<3,1>>, "None">> :> {0,1,3,4,5,6,7,8,9,10,12,13,14,18,20,21,25,27,28,29,30,35,36,37,38,39,40,42,50,51,52,53,54,58,60,62}) @@ \* 6087747361058355195
  (<<<<3,1>>, "black">> :> {0,4,5,6,7,8,11,14,17,19,21,22,25,26,27,28,30,38,40,41,42,43,44,45,46,48,51,54,55,56}) @@ \* 128773978795428337
  (<<<<3,1>>, "white">> :> {0,1,2,3,9,10,13,14,17,18,19,21,23,24,26,30,32,33,35,36,38,39,40,42,43,45,46,49,54,55,57,59,60}) @@ \* 1928224379002316303
  (<<<<3,2>>, "None">> :> {1,2,9,11,12,13,14,15,16,18,19,20,23,24,25,27,28,31,33,34,35,37,38,40,41,45,48,49,50,52,53,57,60,62}) @@ \* 5924242792793373190
  (<<<<3,2>>, "black">> :> {2,3,5,7,11,13,15,16,18,19,25,27,28,29,30,31,33,36,38,39,43,44,45,46,47,49,52,56,57,59,61,62}) @@ \* 7715502696661100716
  (<<<<3,2>>, "white">> :> {0,1,2,5,6,8,11,16,17,18,19,20,30,31,32,35,40,42,43,44,46,47,50,51,56,60,61}) @@ \* 3534442841526700391
  (<<<<3,3>>, "None">> :> {1,6,8,9,11,12,14,16,18,19,22,24,27,28,29,30,31,34,39,40,43,44,45,46,48,50,52,54,55,56,58,60,62}) @@ \* 6184983275288484674
  (<<<<3,3>>, "black">> :> {0,1,2,5,8,9,10,11,12,13,14,19,20,21,23,25,26,28,29,30,34,36,37,38,39,40,41,43,44,46,47,48,49,50,52,55,56,58,59}) @@ \* 979493286986678055
  (<<<<3,3>>, "white">> :> {1,3,4,6,8,9,11,15,16,17,18,19,20,22,23,25,27,30,33,34,38,39,41,43,44,45,46,50,55,56,59}) \* 685808035345435482

\* ---------------------------------------------------------------- GoString
GoString(color, stones, liberties) ==
  [color |-> color, stones |-> stones, liberties |-> liberties]

without_liberty(s, point) == GoString(s.color, s.stones, s.liberties \ {point})

with_liberty(s, point) == GoString(s.color, s.stones, s.liberties \cup {point})

\* merged_with that does not take the combined stones out of the liberties.
merged_with_counting_stones(s, string) ==
  GoString(s.color, s.stones \cup string.stones, s.liberties \cup string.liberties)

\* merged_with (the colour assertion is the caller's obligation).
merged_with(s, string) ==
  GoString(s.color, s.stones \cup string.stones,
           (s.liberties \cup string.liberties) \ (s.stones \cup string.stones))

num_liberties(s) == Cardinality(s.liberties)

\* ---------------------------------------------------------------- Board
\* Board.__init__: empty grid, hash EMPTY_BOARD, neighbour table of the dimension.
Board(num_rows, num_cols) ==
  [num_rows |-> num_rows, num_cols |-> num_cols,
   grid |-> [p \in Points(num_rows, num_cols) |-> NoString],
   hash |-> EMPTY_BOARD]

neighbors(board, point) == init_neighbor_table(board.num_rows, board.num_cols)[point]

is_on_grid(board, point) ==
  /\ 1 <= point[1] /\ point[1] <= board.num_rows
  /\ 1 <= point[2] /\ point[2] <= board.num_cols

\* Board.get: the colour at a point, or None.
get(board, point) == board.grid[point].color

\* x in list
InSeq(x, seq) == \E i \in 1..Len(seq) : seq[i] = x

\* The adjacent_same_color (same = TRUE) / adjacent_opposite_color (same = FALSE)
\* list built by the neighbour loop of place_stone, without duplicates.
adjacent_strings(board, player, point, same) ==
  LET nb == neighbors(board, point)
      acc[i \in 0..Len(nb)] ==
        IF i = 0 THEN <<>>
        ELSE LET s == board.grid[nb[i]]
             IN IF s # NoString /\ ((s.color = player) = same) /\ ~InSeq(s, acc[i - 1])
                THEN Append(acc[i - 1], s)
                ELSE acc[i - 1]
  IN acc[Len(nb)]

\* _replace_string that leaves the points already holding a string alone.
replace_string_empty_points_only(grid, new_string) ==
  [p \in DOMAIN grid |->
     IF p \in new_string.stones /\ grid[p] = NoString THEN new_string ELSE grid[p]]

\* Board._replace_string
replace_string(grid, new_string) ==
  [p \in DOMAIN grid |-> IF p \in new_string.stones THEN new_string ELSE grid[p]]

\* _remove_string that clears the stones but gives no neighbour its liberty back.
restore_liberties_none(board, string, point) == board.grid

\* The inner loop of _remove_string for one removed point: every neighbouring
\* string other than the removed one gains the point as a liberty.
restore_liberties(board, string, point) ==
  LET nb == neighbors(board, point)
      acc[i \in 0..Len(nb)] ==
        IF i = 0 THEN board.grid
        ELSE LET g == acc[i - 1]
                 neighbor_string == g[nb[i]]
             IN IF neighbor_string = NoString THEN g
                ELSE IF neighbor_string # string
                     THEN replace_string(g, with_liberty(neighbor_string, point))
                     ELSE g
  IN acc[Len(nb)]

\* _remove_string that XORs out the stone's code but never XORs the empty code back in.
RECURSIVE remove_points_half_hash(_, _, _)
remove_points_half_hash(board, string, todo) ==
  IF todo = {} THEN board
  ELSE LET point == CHOOSE x \in todo : TRUE
           g == restore_liberties(board, string, point)
       IN remove_points_half_hash(
            [board EXCEPT !.grid = [g EXCEPT ![point] = NoString],
                          !.hash = XOR(board.hash, HASH_CODE[<<point, string.color>>])],
            string, todo \ {point})

\* Board._remove_string: the loop over the stones still to remove.
RECURSIVE remove_points(_, _, _)
remove_points(board, string, todo) ==
  IF todo = {} THEN board
  ELSE LET point == CHOOSE x \in todo : TRUE
           g == restore_liberties(board, string, point)
       IN remove_points(
            [board EXCEPT !.grid = [g EXCEPT ![point] = NoString],
                          !.hash = XOR(XOR(board.hash, HASH_CODE[<<point, string.color>>]),
                                       HASH_CODE[<<point, NoColor>>])],
            string, todo \ {point})

\* _remove_string that leaves one stone of the string on the board.
remove_string_sparing_one_stone(board, string) ==
  remove_points(board, string, string.stones \ {CHOOSE x \in string.stones : TRUE})

remove_string(board, string) == remove_points(board, string, string.stones)

\* place_stone that asserts only that the point is on the grid.
place_stone_asserts_on_grid_only(board, point) == is_on_grid(board, point)

\* The two assertions at the head of place_stone.
place_stone_asserts(board, point) ==
  is_on_grid(board, point) /\ board.grid[point] = NoString

\* Board.place_stone, for a point that passes the assertions.
place_stone(board, player, point) ==
  LET nb == neighbors(board, point)
      liberties == {nb[i] : i \in {j \in 1..Len(nb) : board.grid[nb[j]] = NoString}}
      adjacent_same_color == adjacent_strings(board, player, point, TRUE)
      adjacent_opposite_color == adjacent_strings(board, player, point, FALSE)
      merged[i \in 0..Len(adjacent_same_color)] ==
        IF i = 0 THEN GoString(player, {point}, liberties)
        ELSE merged_with(merged[i - 1], adjacent_same_color[i])
      new_string == merged[Len(adjacent_same_color)]
      placed == [board EXCEPT
                   !.grid = replace_string(board.grid, new_string),
                   !.hash = XOR(XOR(board.hash, HASH_CODE[<<point, NoColor>>]),
                                HASH_CODE[<<point, player>>])]
      captured[i \in 0..Len(adjacent_opposite_color)] ==
        IF i = 0 THEN placed
        ELSE LET other_color_string == adjacent_opposite_color[i]
                 replacement == without_liberty(other_color_string, point)
             IN IF num_liberties(replacement) # 0
                THEN [captured[i - 1] EXCEPT !.grid = replace_string(@, replacement)]
                ELSE remove_string(captured[i - 1], other_color_string)
  IN captured[Len(adjacent_opposite_color)]

\* is_self_capture that ignores opposite strings about to be captured.
is_self_capture_ignoring_capture(board, player, point) ==
  LET nb == neighbors(board, point)
      str(i) == board.grid[nb[i]]
  IN /\ \A i \in 1..Len(nb) : str(i) # NoString
     /\ \A i \in 1..Len(nb) : str(i).color = player => num_liberties(str(i)) = 1

\* Board.is_self_capture
is_self_capture(board, player, point) ==
  LET nb == neighbors(board, point)
      str(i) == board.grid[nb[i]]
  IN /\ \A i \in 1..Len(nb) : str(i) # NoString
     /\ \A i \in 1..Len(nb) : str(i).color # player => num_liberties(str(i)) # 1
     /\ \A i \in 1..Len(nb) : str(i).color = player => num_liberties(str(i)) = 1

\* will_capture that does not look at the colour of the neighbouring string.
will_capture_any_colour(board, player, point) ==
  LET nb == neighbors(board, point)
  IN \E i \in 1..Len(nb) :
       /\ board.grid[nb[i]] # NoString
       /\ num_liberties(board.grid[nb[i]]) = 1

\* Board.will_capture
will_capture(board, player, point) ==
  LET nb == neighbors(board, point)
  IN \E i \in 1..Len(nb) :
       /\ board.grid[nb[i]] # NoString
       /\ board.grid[nb[i]].color # player
       /\ num_liberties(board.grid[nb[i]]) = 1

\* Board.zobrist_hash
zobrist_hash(board) == board.hash

\* ---------------------------------------------------------------- scoring
\* _collect_region: the region of start_pos (points of the same occupant reached
\* through the four deltas) and the occupants bordering it. The recursion of the
\* code is run with its call stack made explicit: calls is the stack of active
\* calls, each with its start_pos, the index i of the delta it examines next,
\* and its all_points and all_borders so far; visited is the dict shared by all
\* calls; returned is the value of the outermost call once it has returned.
\* collect_region_step runs one iteration of the loop over deltas of the call
\* on top of the stack, or its return into the caller when the loop is done.
collect_region_step(board, run) ==
  LET depth_ == Len(run.calls)
  IN IF depth_ = 0 THEN run
     ELSE
       LET call == run.calls[depth_]
           deltas == << <<-1, 0>>, <<1, 0>>, <<0, -1>>, <<0, 1>> >>
       IN IF call.i > 4
          THEN IF depth_ = 1
               THEN [run EXCEPT !.calls = <<>>,
                                !.returned = [points |-> call.points,
                                              borders |-> call.borders]]
               ELSE [run EXCEPT
                       !.calls = [SubSeq(run.calls, 1, depth_ - 1) EXCEPT
                                    ![depth_ - 1].points = @ \o call.points,
                                    ![depth_ - 1].borders = @ \cup call.borders]]
          ELSE
            LET next_p == <<call.start_pos[1] + deltas[call.i][1],
                            call.start_pos[2] + deltas[call.i][2]>>
                advanced == [run EXCEPT !.calls[depth_].i = @ + 1]
            IN IF ~is_on_grid(board, next_p) THEN advanced
               ELSE IF get(board, next_p) = get(board, call.start_pos)
               THEN IF next_p \in run.visited THEN advanced
                    ELSE [advanced EXCEPT
                            !.calls = Append(@, [start_pos |-> next_p, i |-> 1,
                                                 points |-> <<next_p>>, borders |-> {}]),
                            !.visited = @ \cup {next_p}]
               ELSE [advanced EXCEPT
                       !.calls[depth_].borders = @ \cup {get(board, next_p)}]

\* At most n steps of collect_region_step, stopping when the outermost call has
\* returned; n is halved so that the evaluation stays shallow.
RECURSIVE collect_region_steps(_, _, _)
collect_region_steps(board, run, n) ==
  IF n = 0 \/ run.calls = <<>> THEN run
  ELSE IF n = 1 THEN collect_region_step(board, run)
  ELSE LET half == collect_region_steps(board, run, n \div 2)
       IN IF half.calls = <<>> THEN half
          ELSE collect_region_steps(board, half, n - (n \div 2))

\* Every call runs four loop iterations and one return, and there is at most one
\* call per point of the board.
collect_region(start_pos, board, visited) ==
  IF start_pos \in visited
  THEN [points |-> <<>>, borders |-> {}, visited |-> visited]
  ELSE LET first == [calls |-> <<[start_pos |-> start_pos, i |-> 1,
                                  points |-> <<start_pos>>, borders |-> {}]>>,
                     visited |-> visited \cup {start_pos},
                     returned |-> [points |-> <<>>, borders |-> {}]]
           last == collect_region_steps(board, first, 5 * board.num_rows * board.num_cols)
       IN [points |-> last.returned.points, borders |-> last.returned.borders,
           visited |-> last.visited]

\* fill_with that looks for a black border first and never checks for a second colour.
region_status_first_colour(borders) ==
  IF black \in borders THEN "territory_b"
  ELSE IF white \in borders THEN "territory_w"
  ELSE "dame"

\* The fill_with value evaluate_territory derives from a region's borders.
region_status(borders) ==
  IF Cardinality(borders) = 1
  THEN (IF borders = {black} THEN "territory_b" ELSE "territory_w")
  ELSE "dame"

\* point in status, for the status dict kept as its (point, value) items in
\* insertion order.
in_status(status, point) == \E i \in 1..Len(status) : status[i][1] = point

\* status[point] = value
set_status(status, point, value) ==
  IF in_status(status, point)
  THEN [i \in 1..Len(status) |->
          IF status[i][1] = point THEN <<point, value>> ELSE status[i]]
  ELSE Append(status, <<point, value>>)

\* for pos in group: status[pos] = fill_with, for the positions lo..hi of group.
\* The range is halved and the status after the lower half is looked at before
\* the upper half runs, which keeps the evaluation shallow on large boards.
RECURSIVE fill_status(_, _, _, _, _)
fill_status(status, group, fill_with, lo, hi) ==
  IF lo > hi THEN status
  ELSE IF lo = hi THEN set_status(status, group[lo], fill_with)
  ELSE LET mid == (lo + hi) \div 2
           lower == fill_status(status, group, fill_with, lo, mid)
       IN IF Len(lower) = 0 THEN lower
          ELSE fill_status(lower, group, fill_with, mid + 1, hi)

\* One iteration of the double loop of evaluate_territory, for the point p.
territory_status_at(board, status, p) ==
  IF in_status(status, p) THEN status
  ELSE IF get(board, p) # NoColor THEN set_status(status, p, get(board, p))
  ELSE LET region == collect_region(p, board, {})
           fill_with == region_status(region.borders)
       IN fill_status(status, region.points, fill_with, 1, Len(region.points))

\* The iterations lo..hi of the double loop, the points counted in row-major
\* order, halved like fill_status.
RECURSIVE territory_status_range(_, _, _, _)
territory_status_range(board, status, lo, hi) ==
  LET point_at(k) == <<((k - 1) \div board.num_cols) + 1, ((k - 1) % board.num_cols) + 1>>
  IN IF lo > hi THEN status
     ELSE IF lo = hi THEN territory_status_at(board, status, point_at(lo))
     ELSE LET mid == (lo + hi) \div 2
              lower == territory_status_range(board, status, lo, mid)
          IN IF Len(lower) = 0 THEN lower
             ELSE territory_status_range(board, lower, mid + 1, hi)

\* The status dict evaluate_territory builds, point by point in row-major order.
territory_status(board) ==
  territory_status_range(board, <<>>, 1, board.num_rows * board.num_cols)

\* Territory.__init__ without its last branch: a dame status is not counted.
Territory_without_dame(territory_map) ==
  LET count(value) == Cardinality({i \in 1..Len(territory_map) : territory_map[i][2] = value})
  IN [num_black_territory |-> count("territory_b"),
      num_white_territory |-> count("territory_w"),
      num_black_stones |-> count(black),
      num_white_stones |-> count(white),
      num_dame |-> 0,
      dame_points |-> <<>>]

\* Territory.__init__: the counts and the dame points, in the order of the items.
Territory(territory_map) ==
  LET count(value) == Cardinality({i \in 1..Len(territory_map) : territory_map[i][2] = value})
      dame == SelectSeq(territory_map, LAMBDA item : item[2] = "dame")
  IN [num_black_territory |-> count("territory_b"),
      num_white_territory |-> count("territory_w"),
      num_black_stones |-> count(black),
      num_white_stones |-> count(white),
      num_dame |-> count("dame"),
      dame_points |-> [i \in 1..Len(dame) |-> dame[i][1]]]

evaluate_territory(board) == Territory(territory_status(board))

\* GameResult(b, w, komi). The scores b and w are whole points; komi is kept in
\* tenths of a point (5.5 is 55), the unit of every komi value and margin here.
GameResult(b, w, komi) == [b |-> b, w |-> w, komi |-> komi]

\* GameResult.winner that gives an exact tie to Black.
winner_tie_to_black(game_result) ==
  IF 10 * game_result.b >= 10 * game_result.w + game_result.komi THEN "Black" ELSE "White"

\* GameResult.winner
winner(game_result) ==
  IF 10 * game_result.b > 10 * game_result.w + game_result.komi THEN "Black" ELSE "White"

\* abs
abs(x) == IF x < 0 THEN -x ELSE x

\* GameResult.winning_margin, in tenths of a point.
winning_margin(game_result) ==
  LET w == 10 * game_result.w + game_result.komi
  IN abs(10 * game_result.b - w)

\* compute_game_result
compute_game_result(game_state, komi) ==
  LET territory == evaluate_territory(game_state.board)
  IN GameResult(territory.num_black_territory + territory.num_black_stones,
                territory.num_white_territory + territory.num_white_stones,
                komi)

\* ---------------------------------------------------------------- Move
\* The assertion of Move.__init__, ^ being exclusive or on the three booleans.
Move_asserts(point, is_pass, is_resign) ==
  ((point # NoPoint) # is_pass) # is_resign

\* Move.__init__, for arguments that pass the assertion.
Move(point, is_pass, is_resign) ==
  [is_play |-> point # NoPoint, is_pass |-> is_pass, is_resign |-> is_resign,
   point |-> point]

\* Move.play, Move.pass_turn, Move.resign
Move_play(point) == [is_play |-> TRUE, is_pass |-> FALSE, is_resign |-> FALSE, point |-> point]
Move_pass_turn == [is_play |-> FALSE, is_pass |-> TRUE, is_resign |-> FALSE, point |-> NoPoint]
Move_resign == [is_play |-> FALSE, is_pass |-> FALSE, is_resign |-> TRUE, point |-> NoPoint]

\* ---------------------------------------------------------------- GameState
\* bin(n).count('1'): the number of 1 digits of n written in base 2.
RECURSIVE count_ones(_)
count_ones(n) == IF n = 0 THEN 0 ELSE (n % 2) + count_ones(n \div 2)

\* get_tm_sequence with the parity of n in place of the parity of its 1 bits.
get_tm_sequence_alternating(length) == [i \in 1..length |-> (i - 1) % 2]

\* GameState.get_tm_sequence: sequence[n] is at index n + 1 here.
get_tm_sequence(length) == [i \in 1..length |-> count_ones(i - 1) % 2]

\* GameState.__init__ copying the parent's previous_states without adding the
\* parent's own (next_player, hash) pair.
GameState_without_parent_pair(board, next_player, previous, move, ThueMorse, turn_count) ==
  LET in_tm_limit == ThueMorse # 0 /\ ThueMorse > turn_count
  IN [board |-> board,
      next_player |->
        IF in_tm_limit
        THEN (IF get_tm_sequence(ThueMorse)[turn_count + 1] = 0 THEN black ELSE white)
        ELSE next_player,
      previous_state |-> previous,
      previous_states |->
        IF previous = NoState THEN {} ELSE previous.previous_states,
      last_move |-> move,
      ThueMorse |-> ThueMorse,
      turn_count |-> IF in_tm_limit THEN turn_count ELSE NoTurn]

\* GameState.__init__; ThueMorse = 0 stands for None or 0 (both falsy).
GameState(board, next_player, previous, move, ThueMorse, turn_count) ==
  LET in_tm_limit == ThueMorse # 0 /\ ThueMorse > turn_count
  IN [board |-> board,
      next_player |->
        IF in_tm_limit
        THEN (IF get_tm_sequence(ThueMorse)[turn_count + 1] = 0 THEN black ELSE white)
        ELSE next_player,
      previous_state |-> previous,
      previous_states |->
        IF previous = NoState THEN {}
        ELSE previous.previous_states
               \cup {<<previous.next_player, zobrist_hash(previous.board)>>},
      last_move |-> move,
      ThueMorse |-> ThueMorse,
      turn_count |-> IF in_tm_limit THEN turn_count ELSE NoTurn]

\* The komi argument of new_game: the string 'default', None, or a number in
\* tenths of a point.
komi_default == [is_default |-> TRUE, is_none |-> FALSE, tenths |-> 0]
komi_None == [is_default |-> FALSE, is_none |-> TRUE, tenths |-> 0]
komi_number(tenths) == [is_default |-> FALSE, is_none |-> FALSE, tenths |-> tenths]

\* The board_size argument of new_game: a (rows, cols) tuple, or an int n, held
\* as <<n>>, that new_game turns into (n, n).
board_size_tuple(board_size) ==
  IF Len(board_size) = 1 THEN <<board_size[1], board_size[1]>> ELSE board_size

\* The default komi keyed on the second board dimension.
new_game_KOMI_second_dimension(board_size, komi) ==
  IF komi.is_none \/ (~komi.is_default /\ komi.tenths = 0) THEN 0
  ELSE IF komi.is_default
  THEN (IF board_size_tuple(board_size)[2] = 9 THEN 55
        ELSE IF board_size_tuple(board_size)[2] = 13 THEN 65
        ELSE 75)
  ELSE komi.tenths

\* The value new_game assigns to the global KOMI.
new_game_KOMI(board_size, komi) ==
  IF komi.is_none \/ (~komi.is_default /\ komi.tenths = 0) THEN 0
  ELSE IF komi.is_default
  THEN (IF board_size_tuple(board_size)[1] = 9 THEN 55
        ELSE IF board_size_tuple(board_size)[1] = 13 THEN 65
        ELSE 75)
  ELSE komi.tenths

\* new_game handing the first move to White.
new_game_white_first(board_size, ThueMorse) ==
  LET size == board_size_tuple(board_size)
  IN IF ThueMorse # 0
     THEN GameState(Board(size[1], size[2]), white, NoState, NoMove, ThueMorse, 0)
     ELSE GameState(Board(size[1], size[2]), white, NoState, NoMove, 0, NoTurn)

\* GameState.new_game: the state it returns (board and turn order). The komi
\* argument does not reach the state; it sets only the global KOMI, to
\* new_game_KOMI.
new_game(board_size, ThueMorse) ==
  LET size == board_size_tuple(board_size)
  IN IF ThueMorse # 0
     THEN GameState(Board(size[1], size[2]), black, NoState, NoMove, ThueMorse, 0)
     ELSE GameState(Board(size[1], size[2]), black, NoState, NoMove, 0, NoTurn)

\* apply_move passing next_player instead of next_player.other when the
\* override is absent or ends.
apply_move_keeps_player(s, move) ==
  LET next_board == IF move.is_play
                    THEN place_stone(s.board, s.next_player, move.point)
                    ELSE s.board
  IN IF s.ThueMorse # 0 /\ s.turn_count + 1 # s.ThueMorse
     THEN GameState(next_board, other(s.next_player), s, move, s.ThueMorse, s.turn_count + 1)
     ELSE GameState(next_board, s.next_player, s, move, 0, NoTurn)

\* apply_move handing a pass or a resignation a fresh empty board.
apply_move_clears_board(s, move) ==
  LET next_board == IF move.is_play
                    THEN place_stone(s.board, s.next_player, move.point)
                    ELSE Board(s.board.num_rows, s.board.num_cols)
  IN IF s.ThueMorse # 0 /\ s.turn_count + 1 # s.ThueMorse
     THEN GameState(next_board, other(s.next_player), s, move, s.ThueMorse, s.turn_count + 1)
     ELSE GameState(next_board, other(s.next_player), s, move, 0, NoTurn)

\* GameState.apply_move, for a move whose place_stone passes its assertions.
apply_move(s, move) ==
  LET next_board == IF move.is_play
                    THEN place_stone(s.board, s.next_player, move.point)
                    ELSE s.board
  IN IF s.ThueMorse # 0 /\ s.turn_count + 1 # s.ThueMorse
     THEN GameState(next_board, other(s.next_player), s, move, s.ThueMorse, s.turn_count + 1)
     ELSE GameState(next_board, other(s.next_player), s, move, 0, NoTurn)

\* is_over ending the game at any pass that is not the first move.
is_over_single_pass(s) ==
  IF s.last_move = NoMove THEN FALSE
  ELSE IF s.last_move.is_resign THEN TRUE
  ELSE IF s.previous_state.last_move = NoMove THEN FALSE
  ELSE s.last_move.is_pass

\* GameState.is_over
is_over(s) ==
  IF s.last_move = NoMove THEN FALSE
  ELSE IF s.last_move.is_resign THEN TRUE
  ELSE IF s.previous_state.last_move = NoMove THEN FALSE
  ELSE s.last_move.is_pass /\ s.previous_state.last_move.is_pass

\* GameState.is_move_self_capture
is_move_self_capture(s, player, move) ==
  IF ~move.is_play THEN FALSE
  ELSE is_self_capture(s.board, player, move.point)

\* GameState.does_move_violate_ko
does_move_violate_ko(s, player, move) ==
  IF ~move.is_play THEN FALSE
  ELSE IF ~will_capture(s.board, player, move.point) THEN FALSE
  ELSE <<other(player), zobrist_hash(place_stone(s.board, player, move.point))>>
         \in s.previous_states

\* is_valid_move testing for Pass / Resign before testing is_over.
is_valid_move_pass_first(s, move) ==
  IF move.is_pass \/ move.is_resign THEN TRUE
  ELSE IF is_over(s) THEN FALSE
  ELSE /\ get(s.board, move.point) = NoColor
       /\ ~is_move_self_capture(s, s.next_player, move)
       /\ ~does_move_violate_ko(s, s.next_player, move)

\* is_valid_move without the self-capture test.
is_valid_move_allowing_self_capture(s, move) ==
  IF is_over(s) THEN FALSE
  ELSE IF move.is_pass \/ move.is_resign THEN TRUE
  ELSE /\ get(s.board, move.point) = NoColor
       /\ ~does_move_violate_ko(s, s.next_player, move)

\* GameState.is_valid_move
is_valid_move(s, move) ==
  IF is_over(s) THEN FALSE
  ELSE IF move.is_pass \/ move.is_resign THEN TRUE
  ELSE /\ get(s.board, move.point) = NoColor
       /\ ~is_move_self_capture(s, s.next_player, move)
       /\ ~does_move_violate_ko(s, s.next_player, move)

\* legal_moves without the is_over test at its head.
legal_moves_no_over_test(s) ==
  LET rows == s.board.num_rows
      cols == s.board.num_cols
      point_at(k) == <<((k - 1) \div cols) + 1, ((k - 1) % cols) + 1>>
      moves[k \in 0..(rows * cols)] ==
        IF k = 0 THEN <<>>
        ELSE IF is_valid_move(s, Move_play(point_at(k)))
             THEN Append(moves[k - 1], Move_play(point_at(k)))
             ELSE moves[k - 1]
  IN moves[rows * cols] \o <<Move_pass_turn, Move_resign>>

\* GameState.legal_moves; point_at(k) is the k-th point the nested loops
\* (row 1..num_rows, inside it col 1..num_cols) visit.
legal_moves(s) ==
  IF is_over(s) THEN <<>>
  ELSE LET rows == s.board.num_rows
           cols == s.board.num_cols
           point_at(k) == <<((k - 1) \div cols) + 1, ((k - 1) % cols) + 1>>
           moves[k \in 0..(rows * cols)] ==
             IF k = 0 THEN <<>>
             ELSE IF is_valid_move(s, Move_play(point_at(k)))
                  THEN Append(moves[k - 1], Move_play(point_at(k)))
                  ELSE moves[k - 1]
       IN moves[rows * cols] \o <<Move_pass_turn, Move_resign>>

\* GameState.result when the game ended by resignation (the first two branches).
result_resign(s) ==
  IF ~is_over(s) THEN NoColor
  ELSE IF s.last_move.is_resign THEN s.next_player
  ELSE NoColor

\* ---------------------------------------------------------------- state
\* game:   the GameState the driver currently holds (its previous_state chain
\*         holds every ancestor);
\* raised: the exception the last apply_move / place_stone call ended with,
\*         "none" if it returned;
\* board_a, board_b: two Board objects a caller places stones on directly;
\* KOMI:   the module-level global KOMI;
\* game_b: a second GameState of the same process, NoState until it is created;
\* new_game_args: the board_size and komi arguments of the new_game call that
\*         created game (a) and game_b (b), and which of the two calls came last.
\* heap:   the Board objects of the process, a GameState object referring to
\*         its board by the object's index in heap;
\* states: the GameState objects of the process, with board an index in heap and
\*         previous_state an index in states (0 for None);
\* last_call: the method called last on one of these objects.
\*         (heap, states and last_call are followed only where the identity of
\*         objects matters, and are empty elsewhere.)
\* move_made: the Move the last call of the Move constructor made, NoMove when
\*         none was made;
\* encoder: the board_width and board_height of an encoder object;
\* encoding: the point and the index of the last encode_point or
\*         decode_point_index call of the encoder.
VARIABLES game, raised, board_a, board_b, KOMI, game_b, new_game_args,
          heap, states, last_call, move_made, encoder, encoding,
          neighbor_tables, corner_tables, tables, boards
vars == <<game, raised, board_a, board_b, KOMI, game_b, new_game_args,
          heap, states, last_call, move_made, encoder, encoding,
          neighbor_tables, corner_tables, tables, boards>>

\* The module-level table dicts, the table objects and the Board objects that
\* refer to them.
table_state == <<neighbor_tables, corner_tables, tables, boards>>

\* What the moves of one game and the place_stone calls leave alone.
module_state == <<KOMI, game_b, new_game_args, heap, states, last_call,
                  move_made, encoder, encoding, table_state>>

\* What the calls on GameState and Board objects leave alone.
values == <<move_made, encoder, encoding>>

\* No encoder, and no Move built by a caller.
NoEncoder == [board_width |-> 0, board_height |-> 0]
NoEncoding == [point |-> NoPoint, index |-> -1]
NoValues == move_made = NoMove /\ encoder = NoEncoder /\ encoding = NoEncoding

\* The tables are not followed.
NoTables ==
  neighbor_tables = <<>> /\ corner_tables = <<>> /\ tables = <<>> /\ boards = <<>>

\* The objects are not followed.
NoObjects == heap = <<>> /\ states = <<>> /\ last_call = "none"

\* No new_game call.
NoArgs == [board_size |-> <<>>, komi |-> komi_None]

\* GameState.result: None while the game runs, the player to move after a
\* resignation, and otherwise the winner, the margin and the global KOMI.
result_reading(s, global_KOMI) ==
  IF ~is_over(s)
  THEN [is_none |-> TRUE, is_player |-> FALSE, player |-> NoColor,
        winner |-> "", winning_margin |-> 0, komi |-> 0]
  ELSE IF s.last_move.is_resign
  THEN [is_none |-> FALSE, is_player |-> TRUE, player |-> s.next_player,
        winner |-> "", winning_margin |-> 0, komi |-> 0]
  ELSE LET game_result == compute_game_result(s, global_KOMI)
       IN [is_none |-> FALSE, is_player |-> FALSE, player |-> NoColor,
           winner |-> winner(game_result),
           winning_margin |-> winning_margin(game_result), komi |-> global_KOMI]

\* result() called while the global KOMI has its current value.
result(s) == result_reading(s, KOMI)

\* The strict ancestors of a state, root first.
RECURSIVE ancestors(_)
ancestors(s) ==
  IF s.previous_state = NoState THEN <<>>
  ELSE Append(ancestors(s.previous_state), s.previous_state)

\* The number of moves applied to reach a state.
depth(s) == Len(ancestors(s))

\* The root of the game a state belongs to.
root(s) == IF s.previous_state = NoState THEN s ELSE ancestors(s)[1]

\* The komi arguments the single game of Spec and SpecAny is created with.
InitKomiArguments == {komi_default, komi_number(30)}

\* One game, created by new_game.
Init ==
  /\ \E board_size \in BoardSizes, komi \in InitKomiArguments, ThueMorse \in 0..MaxTM :
       /\ game = new_game(board_size, ThueMorse)
       /\ KOMI = new_game_KOMI(board_size, komi)
       /\ new_game_args = [a |-> [board_size |-> board_size, komi |-> komi],
                           b |-> NoArgs, latest |-> "a"]
  /\ raised = "none"
  /\ board_a = game.board
  /\ board_b = game.board
  /\ game_b = NoState
  /\ NoObjects
  /\ NoValues
  /\ NoTables

\* ------------------------------------------- a driver that checks legality
\* The self-play loop of setmaker.py, "while not game.is_over()": a move is
\* applied only to a game that is not over, and the bots return only plays
\* that is_valid_move accepted; every move is_valid_move accepts is let in.
\* (The loop of verify_tm.py applies what the bot returns without a test; its
\* steps are those of apply_move called directly, below.)
PlayStone ==
  /\ depth(game) < MaxMoves
  /\ \E point \in DOMAIN game.board.grid :
       /\ is_valid_move(game, Move_play(point))
       /\ game' = apply_move(game, Move_play(point))
  /\ raised' = "none"
  /\ UNCHANGED <<board_a, board_b, module_state>>

PassTurn ==
  /\ depth(game) < MaxMoves
  /\ is_valid_move(game, Move_pass_turn)
  /\ game' = apply_move(game, Move_pass_turn)
  /\ raised' = "none"
  /\ UNCHANGED <<board_a, board_b, module_state>>

Resign ==
  /\ depth(game) < MaxMoves
  /\ is_valid_move(game, Move_resign)
  /\ game' = apply_move(game, Move_resign)
  /\ raised' = "none"
  /\ UNCHANGED <<board_a, board_b, module_state>>

Next == PlayStone \/ PassTurn \/ Resign

Spec == Init /\ [][Next]_vars

\* ------------------------------------------- apply_move called directly
\* apply_move(Play(point)) for any on-board point: the deep copy's place_stone
\* asserts the point is empty; the call raises and returns no state otherwise.
ApplyPlay ==
  /\ depth(game) < MaxAnyMoves
  /\ \E point \in DOMAIN game.board.grid :
       IF place_stone_asserts(game.board, point)
       THEN /\ game' = apply_move(game, Move_play(point))
            /\ raised' = "none"
       ELSE /\ game' = game
            /\ raised' = "AssertionError"
  /\ UNCHANGED <<board_a, board_b, module_state>>

ApplyPass ==
  /\ depth(game) < MaxAnyMoves
  /\ game' = apply_move(game, Move_pass_turn)
  /\ raised' = "none"
  /\ UNCHANGED <<board_a, board_b, module_state>>

ApplyResign ==
  /\ depth(game) < MaxAnyMoves
  /\ game' = apply_move(game, Move_resign)
  /\ raised' = "none"
  /\ UNCHANGED <<board_a, board_b, module_state>>

NextAny == ApplyPlay \/ ApplyPass \/ ApplyResign

SpecAny == Init /\ [][NextAny]_vars

\* ------------------------------------------- place_stone called directly
\* Two boards of one dimension, both empty.
InitBoards ==
  /\ \E board_size \in BoardSizes :
       /\ game = new_game(board_size, 0)
       /\ KOMI = new_game_KOMI(board_size, komi_default)
       /\ new_game_args = [a |-> [board_size |-> board_size, komi |-> komi_default],
                           b |-> NoArgs, latest |-> "a"]
       /\ board_a = Board(board_size[1], board_size[2])
       /\ board_b = Board(board_size[1], board_size[2])
  /\ raised = "none"
  /\ game_b = NoState
  /\ NoObjects
  /\ NoValues
  /\ NoTables

\* The points a caller hands to place_stone: those of the board and the
\* points one step off each edge of its first row and column.
place_stone_points(board) ==
  DOMAIN board.grid \cup {<<0, 1>>, <<1, 0>>, <<board.num_rows + 1, 1>>,
                          <<1, board.num_cols + 1>>}

\* board_a.place_stone(player, point) for any colour and any point; off the
\* grid or on an occupied point an assertion at the head of place_stone fails
\* before anything is assigned, and the board is left as it was.
PlaceStoneA ==
  /\ \E player \in {black, white}, point \in place_stone_points(board_a) :
       IF place_stone_asserts(board_a, point)
       THEN /\ board_a' = place_stone(board_a, player, point)
            /\ raised' = "none"
       ELSE /\ board_a' = board_a
            /\ raised' = "AssertionError"
  /\ UNCHANGED <<game, board_b, module_state>>

\* board_b.place_stone(player, point), likewise.
PlaceStoneB ==
  /\ \E player \in {black, white}, point \in place_stone_points(board_b) :
       IF place_stone_asserts(board_b, point)
       THEN /\ board_b' = place_stone(board_b, player, point)
            /\ raised' = "none"
       ELSE /\ board_b' = board_b
            /\ raised' = "AssertionError"
  /\ UNCHANGED <<game, board_a, module_state>>

NextBoards == PlaceStoneA \/ PlaceStoneB

SpecBoards == InitBoards /\ [][NextBoards]_vars

\* ------------------------------------------- two games in one process
\* The board sizes and komi arguments new_game is called with. The games are
\* created, passed in and resigned; no stone is played.
GameSizes == {<<9>>, <<9, 13>>, <<13, 9>>, <<19>>, <<1, 3>>}
SecondGameSizes == {<<13>>}
KomiArguments == {komi_default, komi_None, komi_number(0), komi_number(5), komi_number(30)}
SecondKomiArguments == {komi_default, komi_number(30)}

InitGames ==
  /\ \E board_size \in GameSizes, komi \in KomiArguments :
       /\ game = new_game(board_size, 0)
       /\ KOMI = new_game_KOMI(board_size, komi)
       /\ new_game_args = [a |-> [board_size |-> board_size, komi |-> komi],
                           b |-> NoArgs, latest |-> "a"]
  /\ raised = "none"
  /\ board_a = game.board
  /\ board_b = game.board
  /\ game_b = NoState
  /\ NoObjects
  /\ NoValues
  /\ NoTables

\* game = GameState.new_game(board_size, komi), at any time.
NewGameA ==
  /\ \E board_size \in GameSizes, komi \in KomiArguments :
       /\ game' = new_game(board_size, 0)
       /\ KOMI' = new_game_KOMI(board_size, komi)
       /\ new_game_args' = [new_game_args EXCEPT
                              !.a = [board_size |-> board_size, komi |-> komi],
                              !.latest = "a"]
  /\ raised' = "none"
  /\ UNCHANGED <<board_a, board_b, game_b, heap, states, last_call, values,
                 table_state>>

\* game_b = GameState.new_game(board_size, komi)
NewGameB ==
  /\ \E board_size \in SecondGameSizes, komi \in SecondKomiArguments :
       /\ game_b' = new_game(board_size, 0)
       /\ KOMI' = new_game_KOMI(board_size, komi)
       /\ new_game_args' = [new_game_args EXCEPT
                              !.b = [board_size |-> board_size, komi |-> komi],
                              !.latest = "b"]
  /\ raised' = "none"
  /\ UNCHANGED <<game, board_a, board_b, heap, states, last_call, values,
                 table_state>>

PassTurnA ==
  /\ is_valid_move(game, Move_pass_turn)
  /\ game' = apply_move(game, Move_pass_turn)
  /\ raised' = "none"
  /\ UNCHANGED <<board_a, board_b, module_state>>

ResignA ==
  /\ is_valid_move(game, Move_resign)
  /\ game' = apply_move(game, Move_resign)
  /\ raised' = "none"
  /\ UNCHANGED <<board_a, board_b, module_state>>

PassTurnB ==
  /\ game_b # NoState
  /\ is_valid_move(game_b, Move_pass_turn)
  /\ game_b' = apply_move(game_b, Move_pass_turn)
  /\ raised' = "none"
  /\ UNCHANGED <<game, board_a, board_b, KOMI, new_game_args, heap, states, last_call,
                 values, table_state>>

NextGames ==
  \/ NewGameA \/ NewGameB
  \/ PassTurnA \/ ResignA
  \/ PassTurnB

SpecGames == InitGames /\ [][NextGames]_vars

\* ------------------------------------------- objects and their identity
\* The methods seen as operations on objects: a GameState object reads and
\* (through place_stone) writes Board objects of the heap h; objs are the
\* GameState objects. GoString objects are never assigned to after
\* construction (every method returns a new one), so they stay values.

\* Most GameState objects kept at a time.
MaxStates == 3

\* copy.deepcopy handing back the board object itself.
deepcopy_same_object(h, ref) == [heap |-> h, ref |-> ref]

\* copy.deepcopy(board), i.e. Board.__deepcopy__: a new Board object with a
\* copy of the grid dict and the same hash; the heap with it, and its index.
deepcopy(h, ref) == [heap |-> Append(h, h[ref]), ref |-> Len(h) + 1]

\* board.place_stone(player, point) assigning to the object's _grid and _hash.
place_stone_at(h, ref, player, point) ==
  [h EXCEPT ![ref] = place_stone(@, player, point)]

\* The GameState object i as the methods read it (self), 0 being None.
RECURSIVE self_of(_, _, _)
self_of(h, objs, i) ==
  IF i = 0 THEN NoState
  ELSE [board |-> h[objs[i].board],
        next_player |-> objs[i].next_player,
        previous_state |-> self_of(h, objs, objs[i].previous_state),
        previous_states |-> objs[i].previous_states,
        last_move |-> objs[i].last_move,
        ThueMorse |-> objs[i].ThueMorse,
        turn_count |-> objs[i].turn_count]

\* The heap after does_move_violate_ko(player, move) on object i: the deep copy
\* it places the stone on is dropped when the call returns.
heap_after_does_move_violate_ko(h, objs, i, player, move) ==
  IF ~move.is_play THEN h
  ELSE IF ~will_capture(h[objs[i].board], player, move.point) THEN h
  ELSE IF ~place_stone_asserts(h[objs[i].board], move.point) THEN h
  ELSE LET copied == deepcopy(h, objs[i].board)
       IN SubSeq(place_stone_at(copied.heap, copied.ref, player, move.point), 1, Len(h))

\* The heap after is_valid_move(move) on object i; the conjunction stops at
\* its first false operand.
heap_after_is_valid_move(h, objs, i, move) ==
  LET self == self_of(h, objs, i)
  IN IF is_over(self) THEN h
     ELSE IF move.is_pass \/ move.is_resign THEN h
     ELSE IF get(self.board, move.point) # NoColor THEN h
     ELSE IF is_move_self_capture(self, self.next_player, move) THEN h
     ELSE heap_after_does_move_violate_ko(h, objs, i, self.next_player, move)

\* The heap after legal_moves() on object i.
heap_after_legal_moves(h, objs, i) ==
  LET board == h[objs[i].board]
      cols == board.num_cols
      point_at(k) == <<((k - 1) \div cols) + 1, ((k - 1) % cols) + 1>>
      after[k \in 0..(board.num_rows * cols)] ==
        IF k = 0 THEN h
        ELSE heap_after_is_valid_move(after[k - 1], objs, i, Move_play(point_at(k)))
  IN IF is_over(self_of(h, objs, i)) THEN h
     ELSE after[board.num_rows * cols]

\* A GameState object: the attributes of the state s, with its board and its
\* previous_state held by reference.
state_object(s, board_ref, previous_ref) ==
  [board |-> board_ref,
   next_player |-> s.next_player,
   previous_state |-> previous_ref,
   previous_states |-> s.previous_states,
   last_move |-> s.last_move,
   ThueMorse |-> s.ThueMorse,
   turn_count |-> s.turn_count]

\* The GameState the tail of apply_move constructs from self and next_board.
apply_move_return(self, next_board, move) ==
  IF self.ThueMorse # 0 /\ self.turn_count + 1 # self.ThueMorse
  THEN GameState(next_board, other(self.next_player), self, move,
                 self.ThueMorse, self.turn_count + 1)
  ELSE GameState(next_board, other(self.next_player), self, move, 0, NoTurn)

\* next_board of apply_move: for a play, the deep copy with the stone placed
\* on it; otherwise the board object of self.
apply_move_next_board(copied, is_play, player, point) ==
  IF is_play
  THEN [heap |-> place_stone_at(copied.heap, copied.ref, player, point), ref |-> copied.ref]
  ELSE copied

\* The heap and the GameState objects once apply_move has returned.
apply_move_returned(next, objs, i, move) ==
  [heap |-> next.heap,
   states |-> Append(objs, state_object(apply_move_return(self_of(next.heap, objs, i),
                                                          next.heap[next.ref], move),
                                        next.ref, i)),
   raised |-> "none"]

\* apply_move(move) on object i: the heap and the GameState objects after the
\* call, and whether place_stone's assertion failed (then no object is made and
\* the deep copy is dropped).
apply_move_at(h, objs, i, move) ==
  IF move.is_play /\ ~place_stone_asserts(h[objs[i].board], move.point)
  THEN [heap |-> h, states |-> objs, raised |-> "AssertionError"]
  ELSE apply_move_returned(
         apply_move_next_board(IF move.is_play THEN deepcopy(h, objs[i].board)
                               ELSE [heap |-> h, ref |-> objs[i].board],
                               move.is_play, objs[i].next_player, move.point),
         objs, i, move)

\* One Board object and the GameState object new_game makes for it.
InitObjects ==
  /\ \E board_size \in BoardSizes, ThueMorse \in {0, 2} :
       /\ game = new_game(board_size, ThueMorse)
       /\ KOMI = new_game_KOMI(board_size, komi_default)
       /\ new_game_args = [a |-> [board_size |-> board_size, komi |-> komi_default],
                           b |-> NoArgs, latest |-> "a"]
  /\ heap = <<game.board>>
  /\ states = <<state_object(game, 1, 0)>>
  /\ last_call = "new_game"
  /\ raised = "none"
  /\ board_a = game.board
  /\ board_b = game.board
  /\ game_b = NoState
  /\ NoValues
  /\ NoTables

\* An unchanged rest.
objects_frame == <<game, board_a, board_b, KOMI, game_b, new_game_args, values,
                   table_state>>

\* The moves a caller can build for a board.
moves_for(board) ==
  {Move_play(point) : point \in DOMAIN board.grid} \cup {Move_pass_turn, Move_resign}

\* states[i].apply_move(move), for any object and any move.
CallApplyMove ==
  /\ Len(states) < MaxStates
  /\ \E i \in 1..Len(states) : \E move \in moves_for(heap[states[i].board]) :
       LET after == apply_move_at(heap, states, i, move)
       IN /\ heap' = after.heap
          /\ states' = after.states
          /\ raised' = after.raised
  /\ last_call' = "apply_move"
  /\ UNCHANGED objects_frame

\* states[i].is_valid_move(move)
CallIsValidMove ==
  /\ \E i \in 1..Len(states) : \E move \in moves_for(heap[states[i].board]) :
       heap' = heap_after_is_valid_move(heap, states, i, move)
  /\ last_call' = "is_valid_move"
  /\ raised' = "none"
  /\ UNCHANGED <<states, objects_frame>>

\* states[i].legal_moves()
CallLegalMoves ==
  /\ \E i \in 1..Len(states) :
       heap' = heap_after_legal_moves(heap, states, i)
  /\ last_call' = "legal_moves"
  /\ raised' = "none"
  /\ UNCHANGED <<states, objects_frame>>

\* states[i].does_move_violate_ko(player, move); on an occupied point its
\* place_stone raises.
CallDoesMoveViolateKo ==
  /\ \E i \in 1..Len(states) : \E move \in moves_for(heap[states[i].board]) :
     \E player \in {black, white} :
       /\ heap' = heap_after_does_move_violate_ko(heap, states, i, player, move)
       /\ raised' = IF /\ move.is_play
                       /\ will_capture(heap[states[i].board], player, move.point)
                       /\ ~place_stone_asserts(heap[states[i].board], move.point)
                    THEN "AssertionError" ELSE "none"
  /\ last_call' = "does_move_violate_ko"
  /\ UNCHANGED <<states, objects_frame>>

\* board.is_self_capture(player, point) and board.will_capture(player, point)
\* on the board of states[i]: neither has an assignment to an attribute.
CallBoardQuery ==
  /\ last_call' \in {"is_self_capture", "will_capture"}
  /\ raised' = "none"
  /\ UNCHANGED <<heap, states, objects_frame>>

NextObjects ==
  \/ CallApplyMove \/ CallIsValidMove \/ CallLegalMoves
  \/ CallDoesMoveViolateKo \/ CallBoardQuery

SpecObjects == InitObjects /\ [][NextObjects]_vars

\* ------------------------------------------- values built by a caller
\* encode_point with zero-based rows and columns.
encode_point_zero_based(enc, point) == enc.board_width * point[1] + point[2]

\* TMTestEncoder.encode_point and GoGoBoi.encode_point
encode_point(enc, point) == enc.board_width * (point[1] - 1) + (point[2] - 1)

\* TMTestEncoder.decode_point_index and GoGoBoi.decode_point_index
decode_point_index(enc, index) ==
  LET row == index \div enc.board_width
      col == index % enc.board_width
  IN <<row + 1, col + 1>>

\* The encoder's __init__: board_width, board_height = board_size.
Encoder(board_size) == [board_width |-> board_size[1], board_height |-> board_size[2]]

\* Sizes of the square boards an encoder is created for.
EncoderSizes == {<<9, 9>>, <<13, 13>>, <<19, 19>>}

\* The points Move.__init__ is called with, besides None.
MovePoints == Points(1, 2)

InitValues ==
  /\ \E board_size \in EncoderSizes : encoder = Encoder(board_size)
  /\ encoding = NoEncoding
  /\ move_made = NoMove
  /\ raised = "none"
  /\ game = new_game(<<2, 2>>, 0)
  /\ KOMI = new_game_KOMI(<<2, 2>>, komi_default)
  /\ new_game_args = [a |-> [board_size |-> <<2, 2>>, komi |-> komi_default],
                      b |-> NoArgs, latest |-> "a"]
  /\ board_a = game.board
  /\ board_b = game.board
  /\ game_b = NoState
  /\ NoObjects
  /\ NoTables

\* What the calls below leave alone.
values_frame == <<game, board_a, board_b, KOMI, game_b, new_game_args,
                  heap, states, last_call, table_state>>

\* Move(point, is_pass, is_resign) with any arguments.
MakeMove ==
  /\ \E point \in MovePoints \cup {NoPoint}, is_pass \in BOOLEAN, is_resign \in BOOLEAN :
       IF Move_asserts(point, is_pass, is_resign)
       THEN /\ move_made' = Move(point, is_pass, is_resign)
            /\ raised' = "none"
       ELSE /\ move_made' = move_made
            /\ raised' = "AssertionError"
  /\ UNCHANGED <<encoder, encoding, values_frame>>

\* encoder.encode_point(point) for a point of the board.
EncodePoint ==
  /\ \E point \in Points(encoder.board_height, encoder.board_width) :
       encoding' = [point |-> point, index |-> encode_point(encoder, point)]
  /\ raised' = "none"
  /\ UNCHANGED <<encoder, move_made, values_frame>>

\* encoder.decode_point_index(index) for an index below num_points().
DecodePointIndex ==
  /\ \E index \in 0..(encoder.board_width * encoder.board_height - 1) :
       encoding' = [point |-> decode_point_index(encoder, index), index |-> index]
  /\ raised' = "none"
  /\ UNCHANGED <<encoder, move_made, values_frame>>

NextValues == MakeMove \/ EncodePoint \/ DecodePointIndex

SpecValues == InitValues /\ [][NextValues]_vars

\* ------------------------------------------- the shared tables
\* neighbor_tables and corner_tables are the module-level dicts, from a
\* dimension to a table object; table objects are told apart by their place
\* in tables. A Board object holds its grid and hash and the two table
\* objects its __init__ looked up.

\* Most Board objects constructed, and most stones on them.
MaxBoards == 2
MaxStones == 2

\* Dimensions Board is constructed with, and those the table functions are
\* called with directly.
TableSizes == {<<1, 2>>, <<2, 1>>}
DirectSizes == {<<1, 2>>}

\* Most table objects there are when a table is built by a direct call.
MaxTables == 3

\* "tables[dim] = new_table" at the end of init_neighbor_table and
\* init_corner_table: a new table object, registered for the dimension in
\* place of the one that was; the dict and the table objects afterwards.
init_table(by_dim, objs, dim, table) ==
  [by_dim |-> (dim :> Len(objs) + 1) @@ by_dim, objects |-> Append(objs, table)]

\* "if dim not in tables" taken for true at every construction.
table_for_built_again(by_dim, objs, dim, table) ==
  [by_dim |-> (dim :> Len(objs) + 1) @@ by_dim, objects |-> Append(objs, table)]

\* "if dim not in tables: init_table(dim)" of Board.__init__: the dict and the
\* table objects afterwards.
table_for(by_dim, objs, dim, table) ==
  IF dim \in DOMAIN by_dim
  THEN [by_dim |-> by_dim, objects |-> objs]
  ELSE init_table(by_dim, objs, dim, table)

\* The Board object __init__ leaves, once both tables are looked up.
Board_object(board, neighbor_table, corner_table) ==
  [board |-> board, neighbor_table |-> neighbor_table, corner_table |-> corner_table]

\* Board.__init__ for the dimension dim, the new object holding the grid and
\* hash of board: the two dicts, the table objects and the Board objects after.
Board_init_corner(nt, ct, dim, board) ==
  /\ neighbor_tables' = nt.by_dim
  /\ corner_tables' = ct.by_dim
  /\ tables' = ct.objects
  /\ boards' = Append(boards, Board_object(board, nt.by_dim[dim], ct.by_dim[dim]))

Board_init_neighbor(nt, dim, board) ==
  Board_init_corner(nt, table_for(corner_tables, nt.objects, dim,
                                  init_corner_table(dim[1], dim[2])),
                    dim, board)

Board_init(dim, board) ==
  Board_init_neighbor(table_for(neighbor_tables, tables, dim,
                                init_neighbor_table(dim[1], dim[2])),
                      dim, board)

\* No table, no board.
InitTables ==
  /\ NoTables
  /\ raised = "none"
  /\ game = new_game(<<2, 2>>, 0)
  /\ KOMI = new_game_KOMI(<<2, 2>>, komi_default)
  /\ new_game_args = [a |-> [board_size |-> <<2, 2>>, komi |-> komi_default],
                      b |-> NoArgs, latest |-> "a"]
  /\ board_a = game.board
  /\ board_b = game.board
  /\ game_b = NoState
  /\ NoObjects
  /\ NoValues

\* What the calls below leave alone.
tables_frame == <<game, board_a, board_b, KOMI, game_b, new_game_args,
                  heap, states, last_call, values>>

\* Board(num_rows, num_cols)
NewBoard ==
  /\ Len(boards) < MaxBoards
  /\ \E dim \in TableSizes : Board_init(dim, Board(dim[1], dim[2]))
  /\ raised' = "none"
  /\ UNCHANGED tables_frame

\* copy.deepcopy(boards[i]): __deepcopy__ constructs a Board of the same
\* dimension and gives it a copy of the grid and the hash.
DeepCopyBoard ==
  /\ Len(boards) < MaxBoards
  /\ \E i \in 1..Len(boards) :
       Board_init(<<boards[i].board.num_rows, boards[i].board.num_cols>>, boards[i].board)
  /\ raised' = "none"
  /\ UNCHANGED tables_frame

\* boards[i].place_stone(player, point), captures included; it reads the
\* table of the board's dimension and assigns only to the grid and the hash.
PlaceStoneOnBoard ==
  /\ Cardinality({<<i, p>> \in (1..Len(boards)) \X Points(3, 3) :
                    p \in DOMAIN boards[i].board.grid /\ get(boards[i].board, p) # NoColor})
       < MaxStones
  /\ \E i \in 1..Len(boards), player \in {black, white} :
     \E point \in DOMAIN boards[i].board.grid :
       IF place_stone_asserts(boards[i].board, point)
       THEN /\ boards' = [boards EXCEPT ![i].board = place_stone(@, player, point)]
            /\ raised' = "none"
       ELSE /\ boards' = boards
            /\ raised' = "AssertionError"
  /\ UNCHANGED <<neighbor_tables, corner_tables, tables, tables_frame>>

\* init_neighbor_table(dim) called directly: it builds a table and registers
\* it for the dimension whether or not one is registered; the Board objects
\* keep the table objects they hold.
InitNeighborTable ==
  /\ Len(tables) < MaxTables
  /\ \E dim \in DirectSizes :
       LET built == init_table(neighbor_tables, tables, dim,
                               init_neighbor_table(dim[1], dim[2]))
       IN /\ neighbor_tables' = built.by_dim
          /\ tables' = built.objects
  /\ raised' = "none"
  /\ UNCHANGED <<corner_tables, boards, tables_frame>>

\* init_corner_table(dim) called directly, likewise.
InitCornerTable ==
  /\ Len(tables) < MaxTables
  /\ \E dim \in DirectSizes :
       LET built == init_table(corner_tables, tables, dim,
                               init_corner_table(dim[1], dim[2]))
       IN /\ corner_tables' = built.by_dim
          /\ tables' = built.objects
  /\ raised' = "none"
  /\ UNCHANGED <<neighbor_tables, boards, tables_frame>>

\* One of the two table functions called directly.
DirectTableCall == InitNeighborTable \/ InitCornerTable

NextTables ==
  NewBoard \/ DeepCopyBoard \/ PlaceStoneOnBoard \/ InitNeighborTable \/ InitCornerTable

SpecTables == InitTables /\ [][NextTables]_vars

\* ================================================================ claims
\* Helpers for stating the claims.

\* The moves applied from the root to a state, oldest first.
RECURSIVE moves_to(_)
moves_to(s) ==
  IF s.previous_state = NoState THEN <<>>
  ELSE Append(moves_to(s.previous_state), s.last_move)

\* The state of the game at turn index i (0 = root, depth(game) = game itself).
state_at(s, i) == IF i = depth(s) THEN s ELSE ancestors(s)[i + 1]

\* The colour at every point of a board.
position(board) == [p \in DOMAIN board.grid |-> get(board, p)]

\* A play that, carried out by place_stone, removes no stone and leaves the
\* group of the stone just placed without a liberty.
leaves_no_liberty(board, player, point) ==
  LET after == place_stone(board, player, point)
  IN /\ \A q \in DOMAIN board.grid \ {point} : get(after, q) = get(board, q)
     /\ after.grid[point].liberties = {}

\* A play whose successor has the mover and the position of the state itself
\* or of one of its ancestors.
repeats_situation(s, point) ==
  LET child == apply_move(s, Move_play(point))
  IN \E i \in 0..depth(s) :
       /\ state_at(s, i).next_player = child.next_player
       /\ position(state_at(s, i).board) = position(child.board)

\* The Thue-Morse parity t(0) = 0, t(2k) = t(k), t(2k + 1) = 1 - t(k).
RECURSIVE thue_morse(_)
thue_morse(n) ==
  IF n = 0 THEN 0
  ELSE IF n % 2 = 0 THEN thue_morse(n \div 2)
  ELSE 1 - thue_morse(n \div 2)

\* C1: superko - in a game in which every applied move was accepted by
\* is_valid_move, no state produced by a Play has the (next_player,
\* zobrist_hash) pair of one of its ancestors.
C1_NoRepeatedSituation ==
  game.last_move.is_play =>
    \A i \in 1..depth(game) :
      <<ancestors(game)[i].next_player, zobrist_hash(ancestors(game)[i].board)>>
        # <<game.next_player, zobrist_hash(game.board)>>

\* C2: in a non-terminal state is_valid_move(Play(p)) is true exactly when p is
\* empty, the play is not a self-capture and the play does not recreate the
\* mover and position of an earlier state of the game.
C2_ValidIffEmptyNoSuicideNoSuperko ==
  ~is_over(game) =>
    \A p \in DOMAIN game.board.grid :
      IF get(game.board, p) # NoColor
      THEN ~is_valid_move(game, Move_play(p))
      ELSE is_valid_move(game, Move_play(p))
             = (/\ ~leaves_no_liberty(game.board, game.next_player, p)
                /\ ~repeats_situation(game, p))

\* C3: Pass and Resign are valid exactly when the state is not terminal, and in
\* a terminal state no move at all is valid.
C3_PassResignValidIffNotOver ==
  /\ is_valid_move(game, Move_pass_turn) = ~is_over(game)
  /\ is_valid_move(game, Move_resign) = ~is_over(game)
  /\ is_over(game) =>
       \A p \in DOMAIN game.board.grid : ~is_valid_move(game, Move_play(p))

\* C3 witness: a terminal state, where Pass and Resign are refused.
C3_Witness ==
  /\ is_over(game)
  /\ game.last_move.is_resign
  /\ ~is_valid_move(game, Move_pass_turn)
  /\ ~is_valid_move(game, Move_resign)

\* C4: apply_move on a terminal state produces no successor: no state of a
\* game has a terminal ancestor.
C4_NoSuccessorOfTerminal ==
  \A i \in 1..depth(game) : ~is_over(ancestors(game)[i])

\* C5: apply_move of a Play that is_valid_move refuses in a non-terminal state
\* (occupied point, self-capture, superko) returns no state: every state a Play
\* produced from a non-terminal parent was produced by a valid move.
C5_IllegalPlayProducesNoState ==
  (game.last_move.is_play /\ ~is_over(game.previous_state)) =>
    is_valid_move(game.previous_state, game.last_move)

\* C6: is_over is true exactly when the last move is a resignation or the last
\* two moves are both passes; the root and a state after a single pass are not
\* terminal, and a pass followed by a play does not end the game.
C6_OverIffResignOrTwoPasses ==
  LET moves == moves_to(game)
      n == Len(moves)
  IN is_over(game) =
       (\/ n >= 1 /\ moves[n].is_resign
        \/ n >= 2 /\ moves[n].is_pass /\ moves[n - 1].is_pass)

\* C6 witness: a game ended by two consecutive passes after at least one play.
C6_Witness ==
  /\ depth(game) >= 3
  /\ is_over(game)
  /\ game.last_move.is_pass
  /\ game.previous_state.last_move.is_pass
  /\ game.previous_state.previous_state.last_move.is_play

\* C7: after a resignation result() is the opponent of the player who resigned,
\* the player who was to move in the parent state.
C7_ResignationWinnerIsOpponent ==
  game.last_move.is_resign =>
    result_resign(game) = other(game.previous_state.next_player)

\* C8: with turn override limit L >= 1 the mover at every turn index n < L is
\* Black when the Thue-Morse parity of n is 0 and White when it is 1; for L = 4
\* the movers are black, white, white, black.
C8_ThueMorseMovers ==
  LET L == root(game).ThueMorse
      n == depth(game)
  IN (L >= 1 /\ n < L) =>
       /\ game.next_player = (IF thue_morse(n) = 0 THEN black ELSE white)
       /\ L = 4 => game.next_player = <<black, white, white, black>>[n + 1]

\* C8 witness: limit 4, turn index 2, White to move right after White moved.
C8_Witness ==
  /\ root(game).ThueMorse = 4
  /\ depth(game) = 2
  /\ game.previous_state.next_player = white
  /\ game.next_player = white

\* C9: with turn override limit L >= 1 the mover at every turn index i >= L is
\* the opponent of the mover at index i - 1.
C9_AlternationAfterLimit ==
  LET L == root(game).ThueMorse
  IN L >= 1 =>
       \A i \in L..depth(game) :
         state_at(game, i).next_player = other(state_at(game, i - 1).next_player)

\* C9 witness: limit 3 (movers black, white, white), two moves past the limit.
C9_Witness ==
  /\ root(game).ThueMorse = 3
  /\ depth(game) = 5
  /\ state_at(game, 2).next_player = white
  /\ state_at(game, 3).next_player = black
  /\ state_at(game, 4).next_player = white
  /\ game.next_player = black

\* C10: without a turn override the root has Black to move, every applied move
\* hands the turn to the other player, and Black is to move iff the number of
\* moves applied is even.
C10_PlainAlternation ==
  root(game).ThueMorse = 0 =>
    /\ (game.next_player = black) = (depth(game) % 2 = 0)
    /\ depth(game) > 0 => game.next_player = other(game.previous_state.next_player)

\* C10 witness: no override, three moves applied of which the last is a pass.
C10_Witness ==
  /\ root(game).ThueMorse = 0
  /\ depth(game) = 3
  /\ game.last_move.is_pass
  /\ game.next_player = white

\* The occupied points of a board.
occupied(board) == {p \in DOMAIN board.grid : get(board, p) # NoColor}

\* The 64-bit value whose bit k is set iff k is set in an odd number of the
\* codes HASH_CODE[key], key in keys, and EMPTY_BOARD.
xor_of_codes(keys) ==
  {k \in 0..63 :
     (Cardinality({key \in keys : k \in HASH_CODE[key]})
        + (IF k \in EMPTY_BOARD THEN 1 ELSE 0)) % 2 = 1}

\* C11: two boards of one dimension that received any sequences of place_stone
\* calls and show the same colour on every point have the same Zobrist hash.
C11_SamePositionSameHash ==
  position(board_a) = position(board_b) => zobrist_hash(board_a) = zobrist_hash(board_b)

\* C11 witness: both boards hold the same position, which has stones of both
\* colours and an empty point, and a placement has just returned.
C11_Witness ==
  /\ position(board_a) = position(board_b)
  /\ \E p, q, r \in DOMAIN board_a.grid :
       get(board_a, p) = black /\ get(board_a, q) = white /\ get(board_a, r) = NoColor
  /\ raised = "none"

\* C12 as stated: the hash is EMPTY_BOARD XORed with HASH_CODE[(p, occupant)] of
\* every occupied point p and with no other code.
C12_HashOfOccupantCodesOnly ==
  zobrist_hash(board_a) = xor_of_codes({<<p, get(board_a, p)>> : p \in occupied(board_a)})

\* C12 amended: the hash is EMPTY_BOARD XORed, for every occupied point p, with
\* both HASH_CODE[(p, None)] and HASH_CODE[(p, occupant)], and with no other code.
C12_HashOfEmptyAndOccupantCodes ==
  \A b \in {board_a, board_b} :
    zobrist_hash(b) =
      xor_of_codes({<<p, get(b, p)>> : p \in occupied(b)}
                     \cup {<<p, NoColor>> : p \in occupied(b)})

\* C12 witness: a board with more white than black stones and an empty point
\* (so stones were placed and, the colours being free, possibly removed).
C12_Witness ==
  /\ Cardinality({p \in occupied(board_a) : get(board_a, p) = white}) = 2
  /\ Cardinality({p \in occupied(board_a) : get(board_a, p) = black}) = 1
  /\ occupied(board_a) # DOMAIN board_a.grid

\* The on-board points orthogonally adjacent to a point.
adjacent(board, q) ==
  {n \in DOMAIN board.grid :
     \/ n[1] = q[1] /\ (n[2] = q[2] + 1 \/ n[2] = q[2] - 1)
     \/ n[2] = q[2] /\ (n[1] = q[1] + 1 \/ n[1] = q[1] - 1)}

\* The maximal set of points connected to q through points of q's colour
\* (a group of stones, or a region of empty points), read off the colours only.
RECURSIVE grow(_, _)
grow(board, set) ==
  LET more == set \cup {n \in DOMAIN board.grid :
                          \E q \in set : n \in adjacent(board, q) /\ get(board, n) = get(board, q)}
  IN IF more = set THEN set ELSE grow(board, more)

component(board, q) == grow(board, {q})

\* The empty points adjacent to a set of points.
empty_around(board, set) ==
  {n \in DOMAIN board.grid : get(board, n) = NoColor /\ \E q \in set : n \in adjacent(board, q)}

\* The points whose stone a simulated place_stone(player, p) takes off the board.
removed_by(board, player, p) ==
  LET after == place_stone(board, player, p)
  IN {q \in occupied(board) : get(after, q) = NoColor}

\* The empty points of a board.
empty_points(board) == DOMAIN board.grid \ occupied(board)

\* C13: when a Play at p is applied and an adjacent opposite-colour group had p
\* as its only liberty, every stone of that group is off the board afterwards
\* and every group then adjacent to a freed point has that point as a liberty.
C13_CaptureRemovesGroupAndRestoresLiberties ==
  game.last_move.is_play =>
    LET before == game.previous_state.board
        after == game.board
        p == game.last_move.point
        player == game.previous_state.next_player
        captured == {str \in {before.grid[n] : n \in adjacent(before, p)} :
                       str # NoString /\ str.color # player /\ str.liberties = {p}}
    IN \A str \in captured : \A q \in str.stones :
         /\ get(after, q) = NoColor
         /\ \A n \in adjacent(after, q) :
              after.grid[n] # NoString => q \in after.grid[n].liberties

\* C13 witness: the last play took a two-stone group off the board.
C13_Witness ==
  /\ game.last_move.is_play
  /\ \E n \in adjacent(game.board, game.last_move.point) :
       LET str == game.previous_state.board.grid[n]
       IN /\ str # NoString
          /\ str.color # game.previous_state.next_player
          /\ str.liberties = {game.last_move.point}
          /\ Cardinality(str.stones) = 2
          /\ \A q \in str.stones : get(game.board, q) = NoColor

\* C14: on every board of a legally played game, for every colour and every
\* empty point, is_self_capture is true exactly when the simulated placement
\* removes no stone and leaves the group of the placed stone without an
\* adjacent empty point; it is false whenever the placement captures.
C14_SelfCaptureIffNoLibertyNoCapture ==
  \A player \in {black, white} : \A p \in empty_points(game.board) :
    LET after == place_stone(game.board, player, p)
        removed == {q \in occupied(game.board) : get(after, q) = NoColor}
    IN /\ is_self_capture(game.board, player, p)
            = (/\ removed = {}
               /\ empty_around(after, component(after, p)) = {})
       /\ removed # {} => ~is_self_capture(game.board, player, p)

\* C14 witness: one empty point is a self-capture for some colour, and some
\* empty point with no empty neighbour is not one because the play captures.
C14_Witness ==
  /\ \E player \in {black, white}, p \in empty_points(game.board) :
       is_self_capture(game.board, player, p)
  /\ \E player \in {black, white}, p \in empty_points(game.board) :
       /\ empty_around(game.board, {p}) = {}
       /\ removed_by(game.board, player, p) # {}
       /\ ~is_self_capture(game.board, player, p)

\* C15: on every board of a legally played game, for every colour and every
\* empty point, will_capture is true exactly when an adjacent opposite-colour
\* group has exactly one adjacent empty point, and exactly when the placement
\* takes at least one stone off the board.
C15_WillCaptureIffOneLibertyIffRemoves ==
  \A player \in {black, white} : \A p \in empty_points(game.board) :
    /\ will_capture(game.board, player, p)
         = (\E n \in adjacent(game.board, p) :
              /\ get(game.board, n) = other(player)
              /\ Cardinality(empty_around(game.board, component(game.board, n))) = 1)
    /\ will_capture(game.board, player, p) = (removed_by(game.board, player, p) # {})

\* C15 witness: a play that will capture, next to a friendly group that has
\* one liberty as well.
C15_Witness ==
  \E player \in {black, white}, p \in empty_points(game.board) :
    /\ will_capture(game.board, player, p)
    /\ \E n \in adjacent(game.board, p) :
         /\ get(game.board, n) = player
         /\ num_liberties(game.board.grid[n]) = 1

\* C16: legal_moves of a terminal state is empty; of any other state it is the
\* valid plays in row-major order, then Pass, then Resign, nothing listed twice.
C16_LegalMovesRowMajorThenPassResign ==
  LET lm == legal_moves(game)
      n == Len(lm)
  IN IF is_over(game) THEN lm = <<>>
     ELSE /\ n >= 2
          /\ lm[n - 1] = Move_pass_turn
          /\ lm[n] = Move_resign
          /\ \A i \in 1..(n - 2) : lm[i].is_play /\ is_valid_move(game, lm[i])
          /\ \A q \in DOMAIN game.board.grid :
               is_valid_move(game, Move_play(q))
                 => \E i \in 1..(n - 2) : lm[i] = Move_play(q)
          /\ \A i, j \in 1..(n - 2) :
               i < j => \/ lm[i].point[1] < lm[j].point[1]
                        \/ /\ lm[i].point[1] = lm[j].point[1]
                           /\ lm[i].point[2] < lm[j].point[2]
          /\ \A i, j \in 1..n : i # j => lm[i] # lm[j]

\* C16 witness: a 2x2 position in which exactly two plays are listed, one in
\* each row, the other two points being left out.
C16_Witness ==
  /\ ~is_over(game)
  /\ game.board.num_rows = 2
  /\ Len(legal_moves(game)) = 4
  /\ legal_moves(game)[1].is_play /\ legal_moves(game)[1].point[1] = 1
  /\ legal_moves(game)[2].is_play /\ legal_moves(game)[2].point[1] = 2

\* The status evaluate_territory gives a point.
status_of(board, q) ==
  LET status == territory_status(board)
  IN status[CHOOSE i \in 1..Len(status) : status[i][1] = q][2]

\* The colours of the stones adjacent to a set of points.
colours_around(board, set) ==
  {get(board, n) : n \in {m \in occupied(board) : \E q \in set : m \in adjacent(board, q)}}

\* evaluate_territory of an empty 9x9 board.
territory_of_empty_9x9 == evaluate_territory(Board(9, 9))

\* C17: every maximal 4-connected region of empty points is territory of the
\* one colour bordering it, and dame when it borders both colours or no stone;
\* on an empty 9x9 board all 81 points are dame and nobody has stones or territory.
C17_TerritoryClassification ==
  /\ \A q \in empty_points(board_a) :
       LET colours == colours_around(board_a, component(board_a, q))
       IN status_of(board_a, q) =
            (IF colours = {black} THEN "territory_b"
             ELSE IF colours = {white} THEN "territory_w"
             ELSE "dame")
  /\ territory_of_empty_9x9.num_dame = 81
  /\ Len(territory_of_empty_9x9.dame_points) = 81
  /\ territory_of_empty_9x9.num_black_stones = 0
  /\ territory_of_empty_9x9.num_white_stones = 0
  /\ territory_of_empty_9x9.num_black_territory = 0
  /\ territory_of_empty_9x9.num_white_territory = 0

\* C17 witness: one board holds a region of two empty points bordered by white
\* stones only, which evaluate_territory made white territory, and the other a
\* region bordering both colours, which it made dame.
C17_Witness ==
  /\ \E q \in empty_points(board_a) :
       /\ Cardinality(component(board_a, q)) = 2
       /\ colours_around(board_a, component(board_a, q)) = {white}
       /\ \A r \in component(board_a, q) : status_of(board_a, r) = "territory_w"
       /\ evaluate_territory(board_a).num_white_territory = 2
  /\ \E q \in empty_points(board_b) :
       /\ colours_around(board_b, component(board_b, q)) = {black, white}
       /\ status_of(board_b, q) = "dame"
       /\ q \in {evaluate_territory(board_b).dame_points[i] :
                    i \in 1..Len(evaluate_territory(board_b).dame_points)}

\* The points that count for a colour: its stones, and the empty points whose
\* region is bordered by stones of that colour only.
score_points(board, colour) ==
  {q \in occupied(board) : get(board, q) = colour}
    \cup {q \in empty_points(board) :
            colours_around(board, component(board, q)) = {colour}}

\* The GameStates of the process.
games == {game} \cup (IF game_b = NoState THEN {} ELSE {game_b})

\* C18: compute_game_result gives Black its stones plus its territory and White
\* likewise; the winner is Black exactly when the black score exceeds the white
\* score plus komi, White otherwise (an exact tie included), and the margin is
\* the absolute difference of the black score and the white score plus komi.
C18_ScoreWinnerMargin ==
  \A s \in games :
    LET game_result == compute_game_result(s, KOMI)
        blackScore == Cardinality(score_points(s.board, black))
        whiteScore == Cardinality(score_points(s.board, white))
        difference == 10 * blackScore - (10 * whiteScore + KOMI)
    IN /\ game_result.b = blackScore
       /\ game_result.w = whiteScore
       /\ winner(game_result) = (IF difference > 0 THEN "Black" ELSE "White")
       /\ winning_margin(game_result) = (IF difference > 0 THEN difference ELSE -difference)
       /\ (is_over(s) /\ ~s.last_move.is_resign) =>
            /\ result(s).winner = winner(game_result)
            /\ result(s).winning_margin = winning_margin(game_result)

\* C18 witness: a game ended by two passes with a black stone on the board and
\* a positive komi equal to Black's lead on the board, so that the scores tie
\* exactly and the result names White with margin 0.
C18_Witness ==
  /\ is_over(game) /\ ~game.last_move.is_resign
  /\ score_points(game.board, black) # {}
  /\ KOMI > 0
  /\ 10 * compute_game_result(game, KOMI).b = 10 * compute_game_result(game, KOMI).w + KOMI
  /\ result(game).winner = "White"
  /\ result(game).winning_margin = 0

\* The komi a new_game call selects, from its arguments: the default by the
\* first board dimension, 0 when disabled, an explicit value as it is.
chosen_komi(args) ==
  IF args.komi.is_default
  THEN CASE args.board_size[1] = 9 -> 55
         [] args.board_size[1] = 13 -> 65
         [] OTHER -> 75
  ELSE IF args.komi.is_none THEN 0
  ELSE args.komi.tenths

\* C19: after a new_game call KOMI is 5.5 for a default komi and first board
\* dimension 9, 6.5 for first dimension 13, 7.5 for any other size, whatever the
\* second dimension; 0 for komi None or 0; and an explicit value unchanged.
C19_KomiSelection ==
  KOMI = chosen_komi(new_game_args[new_game_args.latest])

\* C19 witness: the latest new_game call was for a 9x13 board with komi left at
\* its default, made while another game existed, and KOMI is 5.5.
C19_Witness ==
  /\ new_game_args.latest = "a"
  /\ new_game_args.a = [board_size |-> <<9, 13>>, komi |-> komi_default]
  /\ game_b # NoState
  /\ game.previous_state = NoState
  /\ KOMI = 55

\* C20: the score-based result of each finished game is computed with the komi
\* chosen when that game was created, whatever other game was created since.
C20_ResultUsesOwnKomi ==
  /\ (is_over(game) /\ ~game.last_move.is_resign) =>
       LET own == compute_game_result(game, chosen_komi(new_game_args.a))
       IN /\ result(game).komi = chosen_komi(new_game_args.a)
          /\ result(game).winner = winner(own)
          /\ result(game).winning_margin = winning_margin(own)
  /\ (game_b # NoState /\ is_over(game_b) /\ ~game_b.last_move.is_resign) =>
       LET own == compute_game_result(game_b, chosen_komi(new_game_args.b))
       IN /\ result(game_b).komi = chosen_komi(new_game_args.b)
          /\ result(game_b).winner = winner(own)
          /\ result(game_b).winning_margin = winning_margin(own)

\* The (next_player, board hash) pair of a state.
situation(s) == <<s.next_player, zobrist_hash(s.board)>>

\* C21: previous_states of every state reached by apply_move is exactly the
\* set of (next_player, hash) pairs of its strict ancestors, empty at the root;
\* it is the parent's set plus the parent's pair, and holds the state's own pair
\* only when an ancestor had that pair.
C21_PreviousStatesAreAncestorPairs ==
  /\ game.previous_states =
       {situation(ancestors(game)[i]) : i \in 1..Len(ancestors(game))}
  /\ game.previous_state = NoState => game.previous_states = {}
  /\ game.previous_state # NoState =>
       game.previous_states =
         game.previous_state.previous_states \cup {situation(game.previous_state)}
  /\ situation(game) \in game.previous_states =>
       \E i \in 1..Len(ancestors(game)) : situation(ancestors(game)[i]) = situation(game)

\* C21 witness: a state three moves deep, with a stone on the board, whose
\* previous_states holds three different pairs, and among them its own pair.
C21_Witness ==
  /\ depth(game) = 3
  /\ occupied(game.board) # {}
  /\ Cardinality(game.previous_states) = 3
  /\ situation(game) \in game.previous_states

\* C22: apply_move, is_valid_move, legal_moves, is_self_capture, will_capture
\* and does_move_violate_ko leave every existing GameState object as it was:
\* its board's grid and hash, next_player, last_move and previous_states are
\* after the call what they were before, however many children it has.
C22_CallsLeaveStatesUnchanged ==
  [][\A i \in 1..Len(states) :
       /\ heap'[states'[i].board].grid = heap[states[i].board].grid
       /\ heap'[states'[i].board].hash = heap[states[i].board].hash
       /\ states'[i].next_player = states[i].next_player
       /\ states'[i].last_move = states[i].last_move
       /\ states'[i].previous_states = states[i].previous_states]_vars

\* C22 witness: a parent with a child made by a play (on its own Board object)
\* and a child made by a pass (which shares the parent's Board object),
\* legal_moves called last, and the parent's board still empty.
C22_Witness ==
  /\ Len(states) = 3
  /\ last_call = "legal_moves"
  /\ states[2].previous_state = 1 /\ states[3].previous_state = 1
  /\ states[2].last_move.is_play /\ states[2].board # 1
  /\ states[3].last_move.is_pass /\ states[3].board = 1
  /\ occupied(heap[1]) = {}
  /\ occupied(heap[states[2].board]) # {}

\* C23: every Move the constructor makes has exactly one of is_play, is_pass
\* and is_resign set.
C23_ExactlyOneTag ==
  move_made # NoMove =>
    Cardinality({tag \in {"is_play", "is_pass", "is_resign"} : move_made[tag]}) = 1

\* C24: on square boards of size 9, 13 and 19 decoding the index of an encoded
\* point gives the point back, and encoding a decoded index gives the index back.
C24_PointIndexRoundTrip ==
  encoding # NoEncoding =>
    /\ decode_point_index(encoder, encode_point(encoder, encoding.point)) = encoding.point
    /\ encode_point(encoder, decode_point_index(encoder, encoding.index)) = encoding.index
    /\ encoding.index \in 0..(encoder.board_width * encoder.board_width - 1)
    /\ encoding.point \in Points(encoder.board_width, encoder.board_width)

\* C24 witness: on the 19x19 board the last index, 360, stands with the last
\* point, (19, 19).
C24_Witness ==
  /\ encoder.board_width = 19
  /\ encoding = [point |-> <<19, 19>>, index |-> 360]

\* C25: the state apply_move makes for a Pass or a Resign has the parent's
\* occupant at every point and the parent's Zobrist hash.
C25_PassResignKeepBoard ==
  (game.last_move.is_pass \/ game.last_move.is_resign) =>
    /\ \A q \in DOMAIN game.board.grid :
         get(game.board, q) = get(game.previous_state.board, q)
    /\ zobrist_hash(game.board) = zobrist_hash(game.previous_state.board)

\* C25 witness: a resignation that follows a pass, with stones on the board.
C25_Witness ==
  /\ game.last_move.is_resign
  /\ game.previous_state.last_move.is_pass
  /\ occupied(game.board) # {}

\* The player who made the last move of a state: the parent's next_player.
mover(s) == s.previous_state.next_player

\* C26: when a game is over by two passes, the two passes were made by the two
\* different players; this also with a turn override limit.
C26_DoublePassByBothPlayers ==
  (is_over(game) /\ ~game.last_move.is_resign) =>
    mover(game) # mover(game.previous_state)

\* C27: on every board of a legally played game the liberties of every group
\* are exactly the empty points adjacent to one of its stones.
C27_LibertiesAreAdjacentEmptyPoints ==
  \A q \in occupied(game.board) :
    game.board.grid[q].liberties = empty_around(game.board, game.board.grid[q].stones)

\* C27 witness: the last play joined the stone to a group of its colour and
\* took a stone off the board, and the joined group has a liberty.
C27_Witness ==
  /\ game.last_move.is_play
  /\ Cardinality(game.board.grid[game.last_move.point].stones) >= 3
  /\ removed_by(game.previous_state.board, game.previous_state.next_player,
                game.last_move.point) # {}
  /\ game.board.grid[game.last_move.point].liberties # {}

\* C28: on every board of a legally played game every occupied point maps to
\* a group of a colour that holds the point, all stones of the group map to
\* that same group, and the stones of the group are exactly the points
\* connected to the point through stones of its colour (so the group is
\* connected, and adjacent stones of one colour are in one group).
C28_GroupsMaximalAndConsistent ==
  \A q \in occupied(game.board) :
    LET str == game.board.grid[q]
    IN /\ str.color \in {black, white}
       /\ q \in str.stones
       /\ \A r \in str.stones : game.board.grid[r] = str
       /\ str.stones = component(game.board, q)
       /\ \A n \in adjacent(game.board, q) :
            get(game.board, n) = str.color => game.board.grid[n] = str

\* C28 witness: the last play joined two stones of its colour that were two
\* groups before into one group of three stones.
C28_Witness ==
  /\ game.last_move.is_play
  /\ Cardinality(game.board.grid[game.last_move.point].stones) = 3
  /\ \E q, r \in game.board.grid[game.last_move.point].stones :
       /\ q # game.last_move.point /\ r # game.last_move.point
       /\ game.previous_state.board.grid[q] # game.previous_state.board.grid[r]

\* C29: in every state of a legally played game every group on the board,
\* the group of a stone just placed included, has at least one liberty: an
\* empty point adjacent to one of its stones.
C29_NoGroupWithoutLiberty ==
  \A q \in occupied(game.board) :
    /\ num_liberties(game.board.grid[q]) >= 1
    /\ empty_around(game.board, component(game.board, q)) # {}

\* C29 witness: the last play went to a point with no empty neighbour, legal
\* since it captured, and the group of the placed stone has a liberty.
C29_Witness ==
  /\ game.last_move.is_play
  /\ empty_around(game.previous_state.board, {game.last_move.point}) = {}
  /\ num_liberties(game.board.grid[game.last_move.point]) >= 1

\* The stones of the groups of the colour opposite to player that are adjacent
\* to p and have p as their only liberty, read off the colours of the board.
stones_without_other_liberty(board, player, p) ==
  UNION {component(board, n) :
           n \in {m \in adjacent(board, p) :
                    /\ get(board, m) \notin {NoColor, player}
                    /\ empty_around(board, component(board, m)) = {p}}}

\* C30: after a legal Play(p) by player X, p holds a stone of X, the points that
\* became empty are exactly the stones of the opposite-colour groups adjacent to
\* p whose only liberty was p, no stone of X is removed, and every other point
\* has the occupant it had before.
C30_PlayChangesOnlyPointAndCaptures ==
  game.last_move.is_play =>
    LET before == game.previous_state.board
        after == game.board
        p == game.last_move.point
        X == mover(game)
        emptied == {q \in occupied(before) : get(after, q) = NoColor}
    IN /\ get(after, p) = X
       /\ emptied = stones_without_other_liberty(before, X, p)
       /\ \A q \in emptied : get(before, q) # X
       /\ \A q \in DOMAIN before.grid \ (emptied \cup {p}) :
            get(after, q) = get(before, q)

\* C30 witness: the last play captured a group while another stone on the
\* board stayed where it was.
C30_Witness ==
  /\ game.last_move.is_play
  /\ stones_without_other_liberty(game.previous_state.board, mover(game),
                                  game.last_move.point) # {}
  /\ \E q \in occupied(game.board) \ {game.last_move.point} :
       get(game.board, q) = get(game.previous_state.board, q)

\* C31: in a legally played game the board after a play that captures nothing
\* (will_capture false on the parent board) has a hash different from the
\* board hash of every ancestor state.
C31_NonCapturingPlayNeverRepeats ==
  (game.last_move.is_play
     /\ ~will_capture(game.previous_state.board, mover(game), game.last_move.point))
    => \A i \in 1..depth(game) :
         zobrist_hash(ancestors(game)[i].board) # zobrist_hash(game.board)

\* C32: for every reachable state and every capturing play on an empty point,
\* the pair (player.other, hash after placement) that does_move_violate_ko
\* looks up is the (next_player, zobrist_hash) pair of the state apply_move
\* returns for that play, inside the turn-override window as well.
C32_KoCheckTestsTheSuccessorSituation ==
  \A p \in empty_points(game.board) :
    will_capture(game.board, game.next_player, p) =>
      <<other(game.next_player),
        zobrist_hash(place_stone(game.board, game.next_player, p))>>
        = situation(apply_move(game, Move_play(p)))

\* C33: place_stone on a point that is off the grid or occupied fails its
\* assertion, and a failed call leaves grid and hash of the boards as they
\* were; a call that does not fail fills a point that was empty, so a stone is
\* never overwritten.
C33_FailedPlaceStoneLeavesBoard ==
  [][/\ \A board \in {board_a, board_b} : \A point \in place_stone_points(board) :
          (~is_on_grid(board, point) \/ get(board, point) # NoColor)
            => ~place_stone_asserts(board, point)
     /\ IF raised' = "AssertionError"
        THEN board_a' = board_a /\ board_b' = board_b
        ELSE \/ \E point \in empty_points(board_a) : get(board_a', point) # NoColor
             \/ \E point \in empty_points(board_b) : get(board_b', point) # NoColor]_vars

\* C33 witness: a place_stone call has failed on boards that hold stones of
\* both colours, one of them full.
C33_Witness ==
  /\ raised = "AssertionError"
  /\ empty_points(board_a) = {}
  /\ \E p, q \in occupied(board_b) : get(board_b, p) # get(board_b, q)

\* The dimension of a Board object.
dim_of(object) == <<object.board.num_rows, object.board.num_cols>>

\* The tables are those of the dimensions, each table object is registered
\* for one dimension, and every Board object holds the registered tables.
tables_shared ==
  /\ \A dim \in DOMAIN neighbor_tables :
       tables[neighbor_tables[dim]] = init_neighbor_table(dim[1], dim[2])
  /\ \A dim \in DOMAIN corner_tables :
       tables[corner_tables[dim]] = init_corner_table(dim[1], dim[2])
  /\ Len(tables) = Cardinality(DOMAIN neighbor_tables) + Cardinality(DOMAIN corner_tables)
  /\ \A i \in 1..Len(boards) :
       /\ dim_of(boards[i]) \in DOMAIN neighbor_tables \cap DOMAIN corner_tables
       /\ boards[i].neighbor_table = neighbor_tables[dim_of(boards[i])]
       /\ boards[i].corner_table = corner_tables[dim_of(boards[i])]

\* A step keeps every registered table object registered and its contents.
tables_kept ==
  /\ \A dim \in DOMAIN neighbor_tables :
       dim \in DOMAIN neighbor_tables' /\ neighbor_tables'[dim] = neighbor_tables[dim]
  /\ \A dim \in DOMAIN corner_tables :
       dim \in DOMAIN corner_tables' /\ corner_tables'[dim] = corner_tables[dim]
  /\ \A k \in 1..Len(tables) : k <= Len(tables') /\ tables'[k] = tables[k]

\* A call on the Board class or on a Board object builds a table only for a
\* dimension that has none registered, keeps every table, leaves the Board
\* objects their tables and gives a new Board object the registered ones; the
\* Boards of a dimension that held one pair of tables still do.
board_call_reuses_tables ==
  /\ tables_kept
  /\ Len(tables') = Len(tables)
                     + Cardinality(DOMAIN neighbor_tables' \ DOMAIN neighbor_tables)
                     + Cardinality(DOMAIN corner_tables' \ DOMAIN corner_tables)
  /\ \A i \in 1..Len(boards) :
       /\ boards'[i].neighbor_table = boards[i].neighbor_table
       /\ boards'[i].corner_table = boards[i].corner_table
  /\ \A i \in (Len(boards) + 1)..Len(boards') :
       /\ boards'[i].neighbor_table = neighbor_tables'[dim_of(boards'[i])]
       /\ boards'[i].corner_table = corner_tables'[dim_of(boards'[i])]
  /\ tables_shared => tables_shared'

\* C34: over board constructions, deep copies, placements and captures (every
\* step that is not a direct call of a table function) the neighbour and
\* corner tables of a dimension are built at most once, by the first Board of
\* the dimension, every later Board of the dimension holds the same table
\* objects, and no table is changed.
C34_TablesBuiltOnceAndKept ==
  [][~DirectTableCall => board_call_reuses_tables]_vars

\* C34 witness: two Board objects of one dimension, the second constructed
\* when the tables existed, share both table objects after a placement on
\* each of them.
C34_Witness ==
  /\ Len(boards) = 2
  /\ dim_of(boards[1]) = dim_of(boards[2])
  /\ Len(tables) = 2
  /\ boards[1].neighbor_table = boards[2].neighbor_table
  /\ boards[1].corner_table = boards[2].corner_table
  /\ \E i \in 1..2 : \E p, q \in DOMAIN boards[i].board.grid :
       /\ get(boards[i].board, p) = white
       /\ get(boards[i].board, q) = NoColor
       /\ get(boards[3 - i].board, q) = black

\* The counts of evaluate_territory cover a board: they add up to its points,
\* the stone counts are the stones on it, and dame_points lists, once each,
\* the empty points whose region borders both colours or none.
territory_covers(board) ==
  LET territory == evaluate_territory(board)
      dame == territory.dame_points
  IN /\ territory.num_black_stones + territory.num_white_stones
          + territory.num_black_territory + territory.num_white_territory
          + territory.num_dame = board.num_rows * board.num_cols
     /\ territory.num_black_stones
          = Cardinality({q \in occupied(board) : get(board, q) = black})
     /\ territory.num_white_stones
          = Cardinality({q \in occupied(board) : get(board, q) = white})
     /\ Len(dame) = territory.num_dame
     /\ \A i, k \in 1..Len(dame) : i # k => dame[i] # dame[k]
     /\ {dame[i] : i \in 1..Len(dame)}
          = {q \in empty_points(board) :
               Cardinality(colours_around(board, component(board, q))) # 1}

\* C35: evaluate_territory gives every point of a board exactly one status:
\* the five counts add up to rows * cols, the stone counts are the numbers of
\* black and white stones, and dame_points lists exactly the num_dame dame
\* points without repetition.
C35_TerritoryCountsCoverBoard == territory_covers(board_a) /\ territory_covers(board_b)

\* C35 witness: one board with stones of both colours and two dame points,
\* another with a stone and territory.
C35_Witness ==
  /\ evaluate_territory(board_a).num_dame = 2
  /\ evaluate_territory(board_a).num_black_stones = 1
  /\ evaluate_territory(board_a).num_white_stones = 1
  /\ evaluate_territory(board_b).num_white_territory >= 2
  /\ evaluate_territory(board_b).num_white_stones >= 1

\* result() of a state is None exactly when the state is not over, the player
\* to move after a resignation, and a (winner, margin, komi) triple otherwise.
result_by_termination(s) ==
  LET returned == result(s)
  IN /\ returned.is_none = ~is_over(s)
     /\ is_over(s) => (returned.is_player = s.last_move.is_resign)
     /\ (is_over(s) /\ s.last_move.is_resign) => returned.player \in {black, white}
     /\ (is_over(s) /\ ~s.last_move.is_resign) => returned.winner \in {"Black", "White"}

\* C36: result() is None exactly for the states that are not terminal, the
\* winning player or a (winner, margin, komi) triple for the terminal ones,
\* and the value it returns for a state is the same at every later call.
C36_ResultFixedPerState ==
  [][/\ result_by_termination(game)
     /\ game_b # NoState => result_by_termination(game_b)
     /\ game' = game => result_reading(game', KOMI') = result(game)
     /\ (game_b # NoState /\ game_b' = game_b)
          => result_reading(game_b', KOMI') = result(game_b)]_vars

\* ---------------------------------------------------------------- bots
\* What one call of select_move did: the moves it can return (the model's
\* ranking and the wrapped agent are free), whether the strategy's resign check
\* ran and whether the wrapped agent or the network was asked.
Selected(moves, resign_checked, agent_called) ==
  [moves |-> moves, resign_checked |-> resign_checked, agent_called |-> agent_called]

\* is_point_an_eye of bots/predict.py
is_point_an_eye(board, point, color) ==
  IF get(board, point) # NoColor THEN FALSE
  ELSE IF \E k \in 1..Len(neighbors(board, point)) :
            get(board, neighbors(board, point)[k]) # color
  THEN FALSE
  ELSE LET corners == {<<point[1] - 1, point[2] - 1>>, <<point[1] - 1, point[2] + 1>>,
                       <<point[1] + 1, point[2] - 1>>, <<point[1] + 1, point[2] + 1>>}
           on_board == {corner \in corners : is_on_grid(board, corner)}
           friendly_corners == Cardinality({corner \in on_board : get(board, corner) = color})
           off_board_corners == Cardinality(corners \ on_board)
       IN IF off_board_corners > 0
          THEN off_board_corners + friendly_corners = 4
          ELSE friendly_corners >= 3

\* TestNN.should_pass
TestNN_should_pass(game_state) ==
  game_state.last_move # NoMove /\ game_state.last_move.is_pass

\* TestNN.select_move: Pass after a pass; otherwise the first point of a random
\* ranking (every ranking has positive probability) that is valid and not an
\* eye of the player to move, Pass when there is none.
TestNN_select_move(game_state) ==
  IF TestNN_should_pass(game_state)
  THEN Selected({Move_pass_turn}, FALSE, FALSE)
  ELSE LET candidates ==
             {Move_play(point) : point \in
                {p \in DOMAIN game_state.board.grid :
                   /\ is_valid_move(game_state, Move_play(p))
                   /\ ~is_point_an_eye(game_state.board, p, game_state.next_player)}}
       IN Selected(IF candidates = {} THEN {Move_pass_turn} ELSE candidates, FALSE, TRUE)

\* The termination strategies of agents/termination.py.
Strategies == {"TerminationStrategy", "PassWhenOpponentPasses", "ResignLargeMargin"}

\* should_pass of a strategy: False for the base class, which is the strategy
\* of a TerminationAgent built without one; the two subclasses return True
\* after a pass and a falsy value otherwise.
should_pass(strategy, game_state) ==
  IF strategy = "TerminationStrategy" THEN FALSE
  ELSE IF game_state.last_move # NoMove THEN game_state.last_move.is_pass
  ELSE FALSE

\* should_resign of a strategy, as the set of values it can return: False for
\* the base class and for PassWhenOpponentPasses, which inherits it; either
\* value for ResignLargeMargin, which counts its calls and scores the game.
should_resign(strategy, game_state) ==
  IF strategy = "ResignLargeMargin" THEN BOOLEAN ELSE {FALSE}

\* TerminationAgent.select_move asking the resign check before should_pass.
TerminationAgent_select_move_resign_first(strategy, game_state) ==
  LET resigns == should_resign(strategy, game_state)
  IN IF resigns = {TRUE}
     THEN Selected({Move_resign}, TRUE, FALSE)
     ELSE IF should_pass(strategy, game_state)
     THEN Selected({Move_pass_turn} \cup (IF TRUE \in resigns THEN {Move_resign} ELSE {}),
                   TRUE, FALSE)
     ELSE Selected(moves_for(game_state.board), TRUE, TRUE)

\* TerminationAgent.select_move: Pass when the strategy says so, else Resign
\* when the strategy says so, else whatever the wrapped agent returns.
TerminationAgent_select_move(strategy, game_state) ==
  IF should_pass(strategy, game_state)
  THEN Selected({Move_pass_turn}, FALSE, FALSE)
  ELSE LET resigns == should_resign(strategy, game_state)
       IN Selected((IF TRUE \in resigns THEN {Move_resign} ELSE {})
                     \cup (IF FALSE \in resigns THEN moves_for(game_state.board) ELSE {}),
                   TRUE, FALSE \in resigns)

\* The bots: the network bot, and a TerminationAgent with each strategy.
Bots ==
  {[class |-> "TestNN", strategy |-> "None"]}
    \cup {[class |-> "TerminationAgent", strategy |-> strategy] : strategy \in Strategies}

\* select_move of a bot
select_move(bot, game_state) ==
  IF bot.class = "TestNN" THEN TestNN_select_move(game_state)
  ELSE TerminationAgent_select_move(bot.strategy, game_state)

\* On a state that is not over and whose last move is a pass, the bot returns
\* Pass, asks neither the resign check nor the agent, and the state after the
\* returned move is over.
answers_pass_with_pass(bot, game_state) ==
  (~is_over(game_state) /\ game_state.last_move # NoMove /\ game_state.last_move.is_pass) =>
    LET selected == select_move(bot, game_state)
    IN /\ selected.moves = {Move_pass_turn}
       /\ ~selected.resign_checked
       /\ ~selected.agent_called
       /\ \A move \in selected.moves : is_over(apply_move(game_state, move))

\* C37 as stated: every bot answers a pass with a pass, without consulting the
\* resign check or the wrapped agent or model, and the game is then over; this
\* also inside a turn override window.
C37_EveryBotAnswersPassWithPass ==
  \A bot \in Bots : answers_pass_with_pass(bot, game)

\* C37 amended: the network bot, and a TerminationAgent whose strategy is
\* PassWhenOpponentPasses or ResignLargeMargin, answer a pass with a pass
\* without consulting the resign check or the wrapped agent or model, and the
\* game is then over; this also inside a turn override window.
C37_PassingBotsAnswerPassWithPass ==
  \A bot \in Bots :
    bot.strategy # "TerminationStrategy" => answers_pass_with_pass(bot, game)

\* C37 witness: inside a turn override window a stone is on the board, the
\* last move is a pass, the game is not over, and every passing bot returns
\* Pass.
C37_Witness ==
  /\ game.ThueMorse # 0
  /\ occupied(game.board) # {}
  /\ game.last_move # NoMove /\ game.last_move.is_pass
  /\ ~is_over(game)
  /\ \A bot \in Bots :
       bot.strategy # "TerminationStrategy" =>
         select_move(bot, game).moves = {Move_pass_turn}

\* ---------------------------------------------------------------- Board.__eq__
\* Board.__eq__ for another Board: the `and` chain stops with False at the
\* first dimension that differs; with equal dimensions it goes on to call
\* self._hash, which is the integer hash and not a method, and the call
\* raises TypeError before anything is compared.
Board_eq(self, other_board) ==
  IF self.num_rows # other_board.num_rows THEN [raised |-> "none", value |-> FALSE]
  ELSE IF self.num_cols # other_board.num_cols THEN [raised |-> "none", value |-> FALSE]
  ELSE [raised |-> "TypeError", value |-> FALSE]

\* C38: two boards with the same numbers of rows and columns compare equal
\* exactly when their Zobrist hashes are equal, so a board equals its deep
\* copy and differs from it after a stone is placed on the copy, and the
\* comparison returns a boolean and raises nothing.
C38_BoardEqualityByHash ==
  (board_a.num_rows = board_b.num_rows /\ board_a.num_cols = board_b.num_cols) =>
    LET compared == Board_eq(board_a, board_b)
        copied == Board_eq(board_a, board_a)
    IN /\ compared.raised = "none"
       /\ compared.value = (zobrist_hash(board_a) = zobrist_hash(board_b))
       /\ copied.raised = "none"
       /\ copied.value

\* ---------------------------------------------------------------- GoString.merged_with, as called
\* merged_with asserting nothing about the colours.
merged_with_asserts_nothing(s, string) == TRUE

\* The assertion of merged_with: the other string has the colour of this one.
merged_with_asserts(s, string) == string.color = s.color

\* s.merged_with(string) as a call: what it raised, what it returned (None
\* when it raised) and the two strings after the call; the method assigns to
\* no attribute, and stones and liberties are frozensets.
merged_with_call(s, string) ==
  IF merged_with_asserts(s, string)
  THEN [raised |-> "none", returned |-> merged_with(s, string),
        self |-> s, string |-> string]
  ELSE [raised |-> "AssertionError", returned |-> NoString,
        self |-> s, string |-> string]

\* The strings on a board.
strings_on(board) == {board.grid[p] : p \in occupied(board)}

\* merged_with on two strings: AssertionError and no string when the colours
\* differ; else a string of that colour with the union of the stones and the
\* union of the liberties less those stones; both strings as they were.
merged_with_contract(s, string) ==
  LET called == merged_with_call(s, string)
  IN /\ called.self = s
     /\ called.string = string
     /\ IF s.color # string.color
        THEN /\ called.raised = "AssertionError"
             /\ called.returned = NoString
        ELSE /\ called.raised = "none"
             /\ called.returned.color = s.color
             /\ called.returned.stones = s.stones \cup string.stones
             /\ called.returned.liberties =
                  (s.liberties \cup string.liberties) \ (s.stones \cup string.stones)

\* C39: merged_with fails with an assertion error and returns no group when
\* the other group has another colour; with equal colours it returns a new
\* group whose stones are the union of both stone sets and whose liberties are
\* the union of both liberty sets minus the combined stones; the two input
\* groups are unchanged.
C39_MergedWithAssertsColourAndUnites ==
  \A s \in strings_on(board_a) \cup strings_on(board_b) :
    \A string \in strings_on(board_a) \cup strings_on(board_b) :
      merged_with_contract(s, string)

\* C39 witness: a group of one board and a group of the other have different
\* colours, and two groups of one colour, one of them of two stones, merge
\* into a group from whose liberties a stone of the other had to be taken out.
C39_Witness ==
  /\ \E s \in strings_on(board_a), string \in strings_on(board_b) :
       /\ s.color # string.color
       /\ merged_with_call(s, string).raised = "AssertionError"
  /\ \E s \in strings_on(board_a), string \in strings_on(board_b) :
       /\ s.color = string.color
       /\ Cardinality(s.stones) = 2
       /\ s.liberties \cap string.stones # {}
       /\ merged_with_call(s, string).returned.liberties
            # s.liberties \cup string.liberties

====
